---- MODULE Spec2Model ----
(***************************************************************************)
(* A model of the thread-coordination layer of Embeddable-V8               *)
(* (src/src/v8threads.cc): the big lock, the Locker / Unlocker guards, the *)
(* ThreadManager's lazy archive / restore protocol over the ThreadState    *)
(* lists, and thread id assignment, for one V8Context.                     *)
(*                                                                         *)
(* Code is modelled functionally: every C++ function is an operator that   *)
(* takes the context data as a record d (see Data) and returns the record  *)
(* after the call.  An action is one guard constructor or destructor, cut  *)
(* only where the code can block or where another thread can observe an    *)
(* intermediate value: between Mutex::Lock() and the store to mutex_owner_,*)
(* and between the clearing of mutex_owner_ and Mutex::Unlock().           *)
(***************************************************************************)
EXTENDS Integers, Sequences, FiniteSets, TLC

(***************************************************************************)
(* Bounds of the model.                                                    *)
(***************************************************************************)
NumThreads == 2      \* OS threads using the context
MaxGuards == 4       \* guard objects constructed in one run, all threads
MaxVal == 2          \* distinct live states interpreter work can produce
MaxContexts == 3     \* V8Context objects constructed in one run
MaxBinders == 2      \* V8ContextBinder objects constructed in one run
MaxLockers == 3      \* V8ResourceLocker objects constructed in one run
MaxWorkers == 2      \* ContextSwitcher objects created in one run

Threads == 1..NumThreads

(***************************************************************************)
(* Values of the program.                                                  *)
(***************************************************************************)
INVALID == 0         \* ThreadHandle::INVALID; a valid handle is a thread
NULL == 0            \* null ThreadState* / unset thread-local slot
kInvalidId == 0      \* ThreadManager::kInvalidId
free_anchor_ == 1    \* the two sentinel ThreadStates of ThreadManagerData
in_use_anchor_ == 2

\* A per-thread subsystem state is a pair <<subsystem, v>>: v = 0 is the
\* default-constructed state, v > 0 a state interpreter work has produced.
Fresh(s) == <<s, 0>>
\* The contents of NewArray<char> cells that were never written.
Uninit == <<"uninitialized", 0>>

ENABLE_DEBUGGER_SUPPORT == TRUE

FREE_LIST == "FREE_LIST"
IN_USE_LIST == "IN_USE_LIST"

VARIABLES
  \* ThreadManagerData
  last_id_, mutex_, mutex_owner_, lazily_archived_thread_,
  lazily_archived_thread_state_, states,
  \* thread-local storage: thread_state_key_ and thread_id_key_ slots
  thread_state_key, thread_id_key,
  \* the context's live (not archived) per-subsystem state
  live,
  \* V8Data::active_, V8::IsRunning(), Top's thread id, StackGuard requests
  active_, is_running, top_thread_id_, terminate_requested,
  \* each thread: where it is, and its live guard objects (innermost last);
  \* the number of guard objects constructed so far
  pc, guards, constructed,
  \* instrumentation: the calls the last handler made, failed ASSERTs
  \* and the handler that ran last
  calls, failed, last,
  \* history: live state at the last step-out, order of first AssignId,
  \* and the record of the pending archive of each thread
  saved, assignOrder, hist,
  \* ThreadManagerData::singleton_, the ContextSwitcher objects ever
  \* created with the position of each one's thread, how many were created,
  \* and the stack guard's pending preemption request
  singleton_, switchers, workers_started, preempt_requested,
  \* one archive and restore of a single subsystem over a buffer position
  round_trip,
  \* v8-global-context: the mode flag, the default context, each thread's
  \* slot for context_key, how many V8Context objects were ever constructed
  \* and which are alive, each thread's V8ContextBinder objects, the V8Context
  \* constructor or destructor each thread is in, and the assertions of
  \* BindContext that failed
  using_one_v8_instance, default_context, context_key, contexts_made, alive,
  binders, binders_made, in_context, bind_failed,
  \* a lock guarded by V8ResourceLocker objects: its holder, each thread's
  \* lockers, how many were constructed, and the Lock and Unlock calls made
  resource_lock, lockers, lockers_made, lock_calls, unlock_calls,
  \* one archived buffer and the scans made of it; the context's ZoneData
  \* with its segments; the context's LoggerData with the VMState objects
  scan, zone, logger

ctxVars == <<last_id_, mutex_owner_, lazily_archived_thread_,
             lazily_archived_thread_state_, states, thread_state_key,
             thread_id_key, live, is_running, top_thread_id_,
             terminate_requested, calls, failed>>
vars == <<last_id_, mutex_, mutex_owner_, lazily_archived_thread_,
          lazily_archived_thread_state_, states, thread_state_key,
          thread_id_key, live, active_, is_running, top_thread_id_,
          terminate_requested, pc, guards, constructed, calls, failed, last,
          saved, assignOrder, hist, singleton_, switchers, workers_started,
          preempt_requested, round_trip, using_one_v8_instance,
          default_context, context_key, contexts_made, alive, binders,
          binders_made, in_context, bind_failed, resource_lock, lockers, lockers_made,
          lock_calls, unlock_calls, scan, zone, logger>>
otherVars == <<scan, zone, logger>>
bindVars == <<default_context, context_key, contexts_made, alive, binders,
              binders_made, in_context, bind_failed>>
lockerVars == <<resource_lock, lockers, lockers_made, lock_calls, unlock_calls>>
preemptVars == <<singleton_, switchers, workers_started, preempt_requested>>

(***************************************************************************)
(* The subsystems, in the three orders the code spells out.                *)
(***************************************************************************)
WithDebug(order) ==
  IF ENABLE_DEBUGGER_SUPPORT THEN order
  ELSE SelectSeq(order, LAMBDA s : s # "Debug")

ArchiveOrder ==
  WithDebug(<<"HandleScopeImplementer", "Top", "Relocatable", "Debug",
              "StackGuard", "RegExpStack", "Bootstrapper">>)

\* Faulty variant: RestoreThread reading the stack guard and the regexp
\* stack in the opposite order.
RestoreOrder_Swapped ==
  WithDebug(<<"HandleScopeImplementer", "Top", "Relocatable", "Debug",
              "RegExpStack", "StackGuard", "Bootstrapper">>)

RestoreOrder ==
  WithDebug(<<"HandleScopeImplementer", "Top", "Relocatable", "Debug",
              "StackGuard", "RegExpStack", "Bootstrapper">>)

SpaceOrder ==
  WithDebug(<<"HandleScopeImplementer", "Top", "Debug", "StackGuard",
              "RegExpStack", "Bootstrapper", "Relocatable">>)

FreeOrder ==
  WithDebug(<<"HandleScopeImplementer", "Top", "Debug", "StackGuard",
              "RegExpStack", "Bootstrapper">>)

Subsystems == {ArchiveOrder[i] : i \in 1..Len(ArchiveOrder)}

\* Bytes one subsystem needs per archived thread, in buffer cells.
FootprintPerThread(s) == 1

RECURSIVE SumFootprints(_)
SumFootprints(order) ==
  IF order = <<>> THEN 0
  ELSE FootprintPerThread(Head(order)) + SumFootprints(Tail(order))

ArchiveSpacePerThread == SumFootprints(SpaceOrder)

(***************************************************************************)
(* The context data every modelled function reads and writes.  calls is    *)
(* the list of functions the current handler has invoked so far and failed *)
(* the set of ASSERTs that did not hold.                                   *)
(***************************************************************************)
Data ==
  [last_id_ |-> last_id_,
   mutex_owner_ |-> mutex_owner_,
   lazily_archived_thread_ |-> lazily_archived_thread_,
   lazily_archived_thread_state_ |-> lazily_archived_thread_state_,
   states |-> states,
   thread_state_key |-> thread_state_key,
   thread_id_key |-> thread_id_key,
   live |-> live,
   is_running |-> is_running,
   top_thread_id_ |-> top_thread_id_,
   terminate_requested |-> terminate_requested,
   calls |-> <<>>,
   failed |-> failed]

Install(d) ==
  /\ last_id_' = d.last_id_
  /\ mutex_owner_' = d.mutex_owner_
  /\ lazily_archived_thread_' = d.lazily_archived_thread_
  /\ lazily_archived_thread_state_' = d.lazily_archived_thread_state_
  /\ states' = d.states
  /\ thread_state_key' = d.thread_state_key
  /\ thread_id_key' = d.thread_id_key
  /\ live' = d.live
  /\ is_running' = d.is_running
  /\ top_thread_id_' = d.top_thread_id_
  /\ terminate_requested' = d.terminate_requested
  /\ calls' = d.calls
  /\ failed' = d.failed

Called(d, name) == [d EXCEPT !.calls = Append(@, name)]

\* ASSERT(cond): a failed assertion is recorded, the code then runs on.
Check(d, cond, name) ==
  IF cond THEN d ELSE [d EXCEPT !.failed = @ \cup {name}]

(***************************************************************************)
(* ThreadHandle                                                            *)
(***************************************************************************)
IsSelf(handle, t) == handle = t
IsValid(handle) == handle # INVALID

(***************************************************************************)
(* ThreadState: the circular doubly linked lists.  sts is the heap of      *)
(* ThreadState objects, a function from their addresses to their fields.   *)
(***************************************************************************)
NewThreadState(self) ==
  [id_ |-> kInvalidId, terminate_on_restore_ |-> FALSE,
   next_ |-> self, previous_ |-> self, data_ |-> <<>>]

AllocateSpace(st) ==
  [st EXCEPT !.data_ = [i \in 1..ArchiveSpacePerThread |-> Uninit]]

Unlink(sts, n) ==
  LET s1 == [sts EXCEPT ![sts[n].next_].previous_ = sts[n].previous_]
  IN  [s1 EXCEPT ![s1[n].previous_].next_ = s1[n].next_]

\* Faulty variant: LinkInto without next_->previous_ = this.
LinkInto_NoBackLink(sts, n, list) ==
  LET flying_anchor == IF list = FREE_LIST THEN free_anchor_
                       ELSE in_use_anchor_
      s1 == [sts EXCEPT ![n].next_ = sts[flying_anchor].next_]
      s2 == [s1 EXCEPT ![n].previous_ = flying_anchor]
  IN  [s2 EXCEPT ![flying_anchor].next_ = n]

LinkInto(sts, n, list) ==
  LET flying_anchor == IF list = FREE_LIST THEN free_anchor_
                       ELSE in_use_anchor_
      s1 == [sts EXCEPT ![n].next_ = sts[flying_anchor].next_]
      s2 == [s1 EXCEPT ![n].previous_ = flying_anchor]
      s3 == [s2 EXCEPT ![flying_anchor].next_ = n]
  IN  [s3 EXCEPT ![s3[n].next_].previous_ = n]

\* Faulty variant: GetFree that allocates whether the free list is empty
\* or not.
GetFree_AlwaysAllocates(sts) ==
  LET fresh == Cardinality(DOMAIN sts) + 1
  IN  [states |-> [n \in DOMAIN sts \cup {fresh} |->
                     IF n = fresh THEN AllocateSpace(NewThreadState(fresh))
                     ELSE sts[n]],
       state |-> fresh]

\* The result: the heap (grown by one object when the free list was
\* empty) and the address of the ThreadState gotten.
\* Faulty variant: GetFree that allocates although one free ThreadState is
\* left.
GetFree_KeepsOneFree(sts) ==
  LET gotten == sts[free_anchor_].next_
      fresh == Cardinality(DOMAIN sts) + 1
  IN  IF gotten = free_anchor_ \/ sts[gotten].next_ = free_anchor_
      THEN [states |-> [n \in DOMAIN sts \cup {fresh} |->
                          IF n = fresh THEN AllocateSpace(NewThreadState(fresh))
                          ELSE sts[n]],
            state |-> fresh]
      ELSE [states |-> sts, state |-> gotten]

GetFree(sts) ==
  LET gotten == sts[free_anchor_].next_
      fresh == Cardinality(DOMAIN sts) + 1
  IN  IF gotten = free_anchor_
      THEN [states |-> [n \in DOMAIN sts \cup {fresh} |->
                          IF n = fresh THEN AllocateSpace(NewThreadState(fresh))
                          ELSE sts[n]],
            state |-> fresh]
      ELSE [states |-> sts, state |-> gotten]

Next_(sts, n) ==
  IF sts[n].next_ = in_use_anchor_ THEN NULL ELSE sts[n].next_

\* Faulty variant: FirstInUse without the test for the anchor.
FirstInUse_NoAnchorTest(sts) == sts[in_use_anchor_].next_

FirstInUse(sts) == Next_(sts, in_use_anchor_)

\* The addresses a walk from an anchor along next_ visits before it is
\* back at the anchor (at most as many as there are objects).
RECURSIVE Walk(_, _, _, _)
Walk(sts, anchor, n, fuel) ==
  IF n = anchor \/ fuel = 0 THEN <<>>
  ELSE <<n>> \o Walk(sts, anchor, sts[n].next_, fuel - 1)

ListOf(sts, anchor) ==
  Walk(sts, anchor, sts[anchor].next_, Cardinality(DOMAIN sts))

SeqToSet(q) == {q[i] : i \in 1..Len(q)}

(***************************************************************************)
(* The archivable subsystems.  RegExpStack is modelled from its source;    *)
(* the other subsystems' code is not part of the sources at hand and       *)
(* follows the contract: Archive writes the live state at the cursor,      *)
(* Restore reads it back, both advance by the subsystem's footprint.       *)
(* A cursor is an index into the buffer; x is [to, data, live].            *)
(***************************************************************************)
\* Faulty variant: ArchiveStack that returns the cursor it was given.
RegExpStack_ArchiveStack_NoAdvance(x) ==
  [to |-> x.to,
   data |-> [x.data EXCEPT ![x.to] = x.live["RegExpStack"]],
   live |-> [x.live EXCEPT !["RegExpStack"] = Fresh("RegExpStack")]]

\* Faulty variant: ArchiveStack without the reset of thread_local.
RegExpStack_ArchiveStack_NoReset(x) ==
  [to |-> x.to + FootprintPerThread("RegExpStack"),
   data |-> [x.data EXCEPT ![x.to] = x.live["RegExpStack"]],
   live |-> x.live]

RegExpStack_ArchiveStack(x) ==
  [to |-> x.to + FootprintPerThread("RegExpStack"),
   data |-> [x.data EXCEPT ![x.to] = x.live["RegExpStack"]],
   live |-> [x.live EXCEPT !["RegExpStack"] = Fresh("RegExpStack")]]

\* Faulty variant: memcpy with source and destination exchanged.
RegExpStack_RestoreStack_Reversed(x) ==
  [to |-> x.to + FootprintPerThread("RegExpStack"),
   data |-> [x.data EXCEPT ![x.to] = x.live["RegExpStack"]],
   live |-> x.live]

RegExpStack_RestoreStack(x) ==
  [to |-> x.to + FootprintPerThread("RegExpStack"),
   data |-> x.data,
   live |-> [x.live EXCEPT !["RegExpStack"] = x.data[x.to]]]

\* RegExpStackData::ThreadLocal::Free, reached from FreeThreadResources.
RegExpStack_Free(lv) ==
  IF lv["RegExpStack"][2] > 0
  THEN [lv EXCEPT !["RegExpStack"] = Fresh("RegExpStack")]
  ELSE lv

\* The arrays ThreadLocal::Free hands to DeleteArray.
RegExpStack_Freed(lv) ==
  IF lv["RegExpStack"][2] > 0 THEN {lv["RegExpStack"]} ELSE {}

Subsystem_Archive(s, x) ==
  [to |-> x.to + FootprintPerThread(s),
   data |-> [x.data EXCEPT ![x.to] = x.live[s]],
   live |-> x.live]

Subsystem_Restore(s, x) ==
  [to |-> x.to + FootprintPerThread(s),
   data |-> x.data,
   live |-> [x.live EXCEPT ![s] = x.data[x.to]]]

Subsystem_Release(s, lv) == [lv EXCEPT ![s] = Fresh(s)]

Archive(s, x) ==
  IF s = "RegExpStack" THEN RegExpStack_ArchiveStack(x)
  ELSE Subsystem_Archive(s, x)

Restore(s, x) ==
  IF s = "RegExpStack" THEN RegExpStack_RestoreStack(x)
  ELSE Subsystem_Restore(s, x)

Release(s, lv) ==
  IF s = "RegExpStack" THEN RegExpStack_Free(lv)
  ELSE Subsystem_Release(s, lv)

\* StackGuard::ClearThread / InitThread: the stack guard of a thread that
\* enters without archived state starts from its default limits.
StackGuard_ClearThread(d) ==
  Called([d EXCEPT !.live["StackGuard"] = Fresh("StackGuard")], "StackGuard::ClearThread")

StackGuard_InitThread(d) ==
  Called([d EXCEPT !.live["StackGuard"] = Fresh("StackGuard")], "StackGuard::InitThread")

StackGuard_TerminateExecution(t, d) ==
  Called([d EXCEPT !.terminate_requested = @ \cup {t}],
         "StackGuard::TerminateExecution")

V8_Initialize(d) == Called([d EXCEPT !.is_running = TRUE], "V8::Initialize")

(***************************************************************************)
(* ThreadManager.  The statements of a function are chained through local  *)
(* operators, one per statement or group of statements, in source order.   *)
(***************************************************************************)
IsLockedByCurrentThread(t, d) == IsSelf(d.mutex_owner_, t)

\* ThreadManager::Lock after mutex_->Lock() has returned (see MutexLock).
Lock_SetOwner(t, d) ==
  LET Asserted(d1) ==
        Check(d1, IsLockedByCurrentThread(t, d1), "Lock: owner is self")
  IN  Asserted(Called([d EXCEPT !.mutex_owner_ = t], "Lock"))

\* Faulty variant: Unlock that leaves the owner record in place.
Unlock_KeepsOwner(t, d) == Called(d, "Unlock")

\* ThreadManager::Unlock up to mutex_->Unlock() (see MutexUnlock).
Unlock_ClearOwner(t, d) ==
  Called([d EXCEPT !.mutex_owner_ = INVALID], "Unlock")

HasId(t, d) == d.thread_id_key[t] # NULL

CurrentId(t, d) == d.thread_id_key[t]

\* Faulty variant: last_id_++ in place of ++last_id_.
AssignId_PostIncrement(t, d) ==
  LET Assign(d1, thread_id) ==
        Called([Check(d1, thread_id > 0, "AssignId: thread_id > 0") EXCEPT
                  !.last_id_ = thread_id + 1,
                  !.thread_id_key[t] = thread_id,
                  !.top_thread_id_ = thread_id], "AssignId")
  IN  IF ~HasId(t, d)
      THEN Assign(Check(d, IsLockedByCurrentThread(t, d), "AssignId: locked"),
                  d.last_id_)
      ELSE d

\* Faulty variant: last_id_ + 1 without storing the counter back.
AssignId_NoIncrement(t, d) ==
  LET Assign(d1, thread_id) ==
        Called([Check(d1, thread_id > 0, "AssignId: thread_id > 0") EXCEPT
                  !.thread_id_key[t] = thread_id,
                  !.top_thread_id_ = thread_id], "AssignId")
  IN  IF ~HasId(t, d)
      THEN Assign(Check(d, IsLockedByCurrentThread(t, d), "AssignId: locked"),
                  d.last_id_ + 1)
      ELSE d

AssignId(t, d) ==
  LET Assign(d1, thread_id) ==
        Called([Check(d1, thread_id > 0, "AssignId: thread_id > 0") EXCEPT
                  !.last_id_ = thread_id,
                  !.thread_id_key[t] = thread_id,
                  !.top_thread_id_ = thread_id], "AssignId")
  IN  IF ~HasId(t, d)
      THEN Assign(Check(d, IsLockedByCurrentThread(t, d), "AssignId: locked"),
                  d.last_id_ + 1)
      ELSE d

IsArchived(t, d) == d.thread_state_key[t] # NULL

\* Faulty variant: ArchiveThread that does not stamp the state with the
\* id of the current thread.
ArchiveThread_NoStamp(t, d0) ==
  LET Marked(d, state) ==
        Check(Check(d, d.states[state].id_ = kInvalidId,
                    "ArchiveThread: state id invalid"),
              d.states[state].id_ # kInvalidId,
              "ArchiveThread: state id valid")
      Take(d, g) ==
        Marked([d EXCEPT !.states = Unlink(g.states, g.state),
                         !.thread_state_key[t] = g.state,
                         !.lazily_archived_thread_ = t,
                         !.lazily_archived_thread_state_ = g.state], g.state)
      Asserted(d) ==
        Take(Check(Check(d, ~IsValid(d.lazily_archived_thread_),
                         "ArchiveThread: no lazily archived thread"),
                   ~IsArchived(t, d), "ArchiveThread: not archived"),
             GetFree(d.states))
  IN  Asserted(Called(d0, "ArchiveThread"))

ArchiveThread(t, d0) ==
  LET Stamped(d, state) ==
        Check(d, d.states[state].id_ # kInvalidId,
              "ArchiveThread: state id valid")
      Stamp(d, state) ==
        Stamped([d EXCEPT !.states[state].id_ = CurrentId(t, d)], state)
      Marked(d, state) ==
        Stamp(Check(d, d.states[state].id_ = kInvalidId,
                    "ArchiveThread: state id invalid"), state)
      Take(d, g) ==
        Marked([d EXCEPT !.states = Unlink(g.states, g.state),
                         !.thread_state_key[t] = g.state,
                         !.lazily_archived_thread_ = t,
                         !.lazily_archived_thread_state_ = g.state], g.state)
      Asserted(d) ==
        Take(Check(Check(d, ~IsValid(d.lazily_archived_thread_),
                         "ArchiveThread: no lazily archived thread"),
                   ~IsArchived(t, d), "ArchiveThread: not archived"),
             GetFree(d.states))
  IN  Asserted(Called(d0, "ArchiveThread"))

\* Runs Archive of each subsystem of order over the buffer of state,
\* starting at cursor to.
RECURSIVE ArchiveEach(_, _, _, _)
ArchiveEach(order, d, state, to) ==
  LET Written(x) ==
        ArchiveEach(Tail(order),
                    Called([d EXCEPT !.states[state].data_ = x.data,
                                     !.live = x.live],
                           "Archive:" \o Head(order)),
                    state, x.to)
  IN  IF order = <<>> THEN d
      ELSE Written(Archive(Head(order),
                           [to |-> to, data |-> d.states[state].data_,
                            live |-> d.live]))

RECURSIVE RestoreEach(_, _, _, _)
RestoreEach(order, d, state, from) ==
  LET Read(x) ==
        RestoreEach(Tail(order),
                    Called([d EXCEPT !.states[state].data_ = x.data,
                                     !.live = x.live],
                           "Restore:" \o Head(order)),
                    state, x.to)
  IN  IF order = <<>> THEN d
      ELSE Read(Restore(Head(order),
                        [to |-> from, data |-> d.states[state].data_,
                         live |-> d.live]))

\* Faulty variant: EagerlyArchiveThread that leaves the lazy candidate set.
EagerlyArchiveThread_KeepsCandidate(d0) ==
  LET Linked(d, state) ==
        ArchiveEach(ArchiveOrder,
                    [d EXCEPT !.states =
                       LinkInto(d.states, state, IN_USE_LIST)],
                    state, 1)
      Entered(d) == Linked(d, d.lazily_archived_thread_state_)
  IN  Entered(Called(d0, "EagerlyArchiveThread"))

EagerlyArchiveThread(d0) ==
  LET Cleared(d) ==
        [d EXCEPT !.lazily_archived_thread_ = INVALID,
                  !.lazily_archived_thread_state_ = NULL]
      Linked(d, state) ==
        Cleared(ArchiveEach(ArchiveOrder,
                            [d EXCEPT !.states =
                               LinkInto(d.states, state, IN_USE_LIST)],
                            state, 1))
      Entered(d) == Linked(d, d.lazily_archived_thread_state_)
  IN  Entered(Called(d0, "EagerlyArchiveThread"))

\* Faulty variant: RestoreThread without the lazily-archived shortcut; the
\* current thread's pending archive is committed and read back.
RestoreThread_NoLazyPath(t, d0) ==
  LET Freed(d, state) ==
        [d |-> [d EXCEPT !.states =
                  LinkInto(Unlink([d.states EXCEPT ![state].id_ = kInvalidId],
                                  state),
                           state, FREE_LIST)],
         result |-> TRUE]
      Terminated(d, state) ==
        Freed(IF d.states[state].terminate_on_restore_
              THEN [StackGuard_TerminateExecution(t, d) EXCEPT
                      !.states[state].terminate_on_restore_ = FALSE]
              ELSE d, state)
      Restored(d, state) ==
        Terminated([d EXCEPT !.thread_state_key[t] = NULL], state)
      Found(d, state) ==
        IF state = NULL
        THEN [d |-> StackGuard_InitThread(d), result |-> FALSE]
        ELSE Restored(RestoreEach(RestoreOrder, d, state, 1), state)
      Others(d) == Found(d, d.thread_state_key[t])
      Entered(d) ==
        Others(IF IsValid(d.lazily_archived_thread_)
               THEN EagerlyArchiveThread(d) ELSE d)
  IN  Entered(Called(d0, "RestoreThread"))

\* Faulty variant: RestoreThread that does not commit another thread's
\* pending archive before it looks for its own.
RestoreThread_NoEagerArchive(t, d0) ==
  LET Lazy(d, state) ==
        [d |-> [Check(d, d.thread_state_key[t] = state,
                      "RestoreThread: key is the lazy state") EXCEPT
                  !.lazily_archived_thread_ = INVALID,
                  !.states = LinkInto([d.states EXCEPT
                                         ![state].id_ = kInvalidId],
                                      state, FREE_LIST),
                  !.lazily_archived_thread_state_ = NULL,
                  !.thread_state_key[t] = NULL],
         result |-> TRUE]
      Freed(d, state) ==
        [d |-> [d EXCEPT !.states =
                  LinkInto(Unlink([d.states EXCEPT ![state].id_ = kInvalidId],
                                  state),
                           state, FREE_LIST)],
         result |-> TRUE]
      Terminated(d, state) ==
        Freed(IF d.states[state].terminate_on_restore_
              THEN [StackGuard_TerminateExecution(t, d) EXCEPT
                      !.states[state].terminate_on_restore_ = FALSE]
              ELSE d, state)
      Restored(d, state) ==
        Terminated([d EXCEPT !.thread_state_key[t] = NULL], state)
      Found(d, state) ==
        IF state = NULL
        THEN [d |-> StackGuard_InitThread(d), result |-> FALSE]
        ELSE Restored(RestoreEach(RestoreOrder, d, state, 1), state)
      Others(d) == Found(d, d.thread_state_key[t])
      Entered(d) ==
        IF IsSelf(d.lazily_archived_thread_, t)
        THEN Lazy(d, d.lazily_archived_thread_state_)
        ELSE Others(d)
  IN  Entered(Called(d0, "RestoreThread"))

\* The result: [d |-> the data after the call, result |-> the bool returned].
\* Faulty variant: RestoreThread that leaves terminate_on_restore_ set.
RestoreThread_KeepsFlag(t, d0) ==
  LET \* the current thread was lazily archived: give the state back
      Lazy(d, state) ==
        [d |-> [Check(d, d.thread_state_key[t] = state,
                      "RestoreThread: key is the lazy state") EXCEPT
                  !.lazily_archived_thread_ = INVALID,
                  !.states = LinkInto([d.states EXCEPT
                                         ![state].id_ = kInvalidId],
                                      state, FREE_LIST),
                  !.lazily_archived_thread_state_ = NULL,
                  !.thread_state_key[t] = NULL],
         result |-> TRUE]
      Freed(d, state) ==
        [d |-> [d EXCEPT !.states =
                  LinkInto(Unlink([d.states EXCEPT ![state].id_ = kInvalidId],
                                  state),
                           state, FREE_LIST)],
         result |-> TRUE]
      Terminated(d, state) ==
        Freed(IF d.states[state].terminate_on_restore_
              THEN StackGuard_TerminateExecution(t, d)
              ELSE d, state)
      Restored(d, state) ==
        Terminated([d EXCEPT !.thread_state_key[t] = NULL], state)
      Found(d, state) ==
        IF state = NULL
        THEN [d |-> StackGuard_InitThread(d), result |-> FALSE]
        ELSE Restored(RestoreEach(RestoreOrder, d, state, 1), state)
      Others(d) == Found(d, d.thread_state_key[t])
      Entered(d) ==
        IF IsSelf(d.lazily_archived_thread_, t)
        THEN Lazy(d, d.lazily_archived_thread_state_)
        ELSE Others(IF IsValid(d.lazily_archived_thread_)
                    THEN EagerlyArchiveThread(d) ELSE d)
  IN  Entered(Called(d0, "RestoreThread"))

RestoreThread(t, d0) ==
  LET \* the current thread was lazily archived: give the state back
      Lazy(d, state) ==
        [d |-> [Check(d, d.thread_state_key[t] = state,
                      "RestoreThread: key is the lazy state") EXCEPT
                  !.lazily_archived_thread_ = INVALID,
                  !.states = LinkInto([d.states EXCEPT
                                         ![state].id_ = kInvalidId],
                                      state, FREE_LIST),
                  !.lazily_archived_thread_state_ = NULL,
                  !.thread_state_key[t] = NULL],
         result |-> TRUE]
      Freed(d, state) ==
        [d |-> [d EXCEPT !.states =
                  LinkInto(Unlink([d.states EXCEPT ![state].id_ = kInvalidId],
                                  state),
                           state, FREE_LIST)],
         result |-> TRUE]
      Terminated(d, state) ==
        Freed(IF d.states[state].terminate_on_restore_
              THEN [StackGuard_TerminateExecution(t, d) EXCEPT
                      !.states[state].terminate_on_restore_ = FALSE]
              ELSE d, state)
      Restored(d, state) ==
        Terminated([d EXCEPT !.thread_state_key[t] = NULL], state)
      Found(d, state) ==
        IF state = NULL
        THEN [d |-> StackGuard_InitThread(d), result |-> FALSE]
        ELSE Restored(RestoreEach(RestoreOrder, d, state, 1), state)
      Others(d) == Found(d, d.thread_state_key[t])
      Entered(d) ==
        IF IsSelf(d.lazily_archived_thread_, t)
        THEN Lazy(d, d.lazily_archived_thread_state_)
        ELSE Others(IF IsValid(d.lazily_archived_thread_)
                    THEN EagerlyArchiveThread(d) ELSE d)
  IN  Entered(Called(d0, "RestoreThread"))

RECURSIVE ReleaseEach(_, _)
ReleaseEach(order, lv) ==
  IF order = <<>> THEN lv
  ELSE ReleaseEach(Tail(order), Release(Head(order), lv))

FreeThreadResources(d) ==
  Called([d EXCEPT !.live = ReleaseEach(FreeOrder, d.live)],
         "FreeThreadResources")

(***************************************************************************)
(* History kept for the properties; it is never read by the code.          *)
(***************************************************************************)
\* The loop of ThreadManager::TerminateExecution from state on.
RECURSIVE TerminateScan(_, _, _)
TerminateScan(d, state, thread_id) ==
  IF state = NULL THEN d
  ELSE TerminateScan(IF thread_id = d.states[state].id_
                     THEN [d EXCEPT
                             !.states[state].terminate_on_restore_ = TRUE]
                     ELSE d,
                     Next_(d.states, state), thread_id)

\* Faulty variant: the scan starts at the second in-use ThreadState.
TerminateExecution_SkipsFirst(thread_id, d) ==
  LET Entered(d1) ==
        IF FirstInUse(d1.states) = NULL THEN d1
        ELSE TerminateScan(d1, Next_(d1.states, FirstInUse(d1.states)),
                           thread_id)
  IN  Entered(Called(d, "TerminateExecution:" \o ToString(thread_id)))

\* ThreadManager::TerminateExecution(thread_id); the call is logged with
\* its argument.
TerminateExecution(thread_id, d) ==
  LET Entered(d1) == TerminateScan(d1, FirstInUse(d1.states), thread_id)
  IN  Entered(Called(d, "TerminateExecution:" \o ToString(thread_id)))

FreshLive == [s \in Subsystems |-> Fresh(s)]

NoSaved == [set |-> FALSE, live |-> FreshLive]

NoHist ==
  [phase |-> "none", state |-> NULL, id_ |-> kInvalidId, data_ |-> <<>>,
   other_archived |-> FALSE, other_locked |-> FALSE,
   subsystem_calls |-> FALSE]

InCalls(name, cs) == \E i \in 1..Len(cs) : cs[i] = name

SubsystemCalled(cs) ==
  \E i \in 1..Len(cs) : \E s \in Subsystems :
    cs[i] = "Archive:" \o s \/ cs[i] = "Restore:" \o s

\* The ThreadState at address n as it was before the handler ran (a state
\* allocated by the handler: as the allocation left it).
Before(n) ==
  IF n \in DOMAIN states THEN states[n]
  ELSE AllocateSpace(NewThreadState(n))

HistAfter(t, d) ==
  [u \in Threads |->
     IF u = t /\ InCalls("ArchiveThread", d.calls)
     THEN [phase |-> "archived", state |-> d.thread_state_key[t],
           id_ |-> Before(d.thread_state_key[t]).id_,
           data_ |-> Before(d.thread_state_key[t]).data_,
           other_archived |-> FALSE, other_locked |-> FALSE,
           subsystem_calls |-> FALSE]
     ELSE IF hist[u].phase = "archived"
     THEN [hist[u] EXCEPT
             !.phase = IF u = t /\ InCalls("RestoreThread", d.calls)
                       THEN "restored" ELSE @,
             !.other_archived = @ \/ (u # t /\ InCalls("ArchiveThread", d.calls)),
             !.other_locked = @ \/ (u # t /\ InCalls("Lock", d.calls)),
             !.subsystem_calls = @ \/ SubsystemCalled(d.calls)]
     ELSE NoHist]

SavedAfter(t, d) ==
  [u \in Threads |->
     IF u = t /\ InCalls("ArchiveThread", d.calls)
     THEN [set |-> TRUE, live |-> live]
     ELSE IF d.thread_state_key[u] # NULL
             \/ (u = t /\ InCalls("RestoreThread", d.calls))
     THEN saved[u]
     ELSE NoSaved]

\* One handler op of thread t that leaves the context data as d.
Step(t, op, d) ==
  /\ Install(d)
  /\ last' = [op |-> op, t |-> t]
  /\ hist' = HistAfter(t, d)
  /\ saved' = SavedAfter(t, d)
  /\ assignOrder' = IF InCalls("AssignId", d.calls)
                    THEN Append(assignOrder, t) ELSE assignOrder
  /\ UNCHANGED <<preemptVars, round_trip, using_one_v8_instance, bindVars,
                 lockerVars, otherVars>>

(***************************************************************************)
(* Guard objects.  has_lock_ and top_level_ are Locker's members;          *)
(* entered_locked is history: whether the constructing thread held the     *)
(* lock when the constructor was entered.                                  *)
(***************************************************************************)
Guard(kind, has_lock, top_level, entered_locked) ==
  [kind |-> kind, has_lock_ |-> has_lock, top_level_ |-> top_level,
   entered_locked |-> entered_locked]

Top(t) == guards[t][Len(guards[t])]
Push(t, g) == [guards EXCEPT ![t] = Append(@, g)]
Pop(t) == [guards EXCEPT ![t] = SubSeq(@, 1, Len(@) - 1)]
SetTop(t, g) == [guards EXCEPT ![t][Len(guards[t])] = g]

\* Faulty variant: has_lock_ set although nothing was acquired.
Locker_Held_HasLock(t, d) ==
  [d |-> AssignId(t, Check(d, IsLockedByCurrentThread(t, d),
                           "Locker: locked by current thread")),
   has_lock_ |-> TRUE, top_level_ |-> TRUE]

\* Locker::Locker when the lock is already held by the caller.  The
\* result of a constructor: the data and the members of the new object.
Locker_Held(t, d) ==
  [d |-> AssignId(t, Check(d, IsLockedByCurrentThread(t, d),
                           "Locker: locked by current thread")),
   has_lock_ |-> FALSE, top_level_ |-> TRUE]

\* Locker::Locker from the return of mutex_->Lock() on.
\* Faulty variant: Locker::Locker that leaves top_level_ as initialised.
Locker_Acquired_KeepsTopLevel(t, d0) ==
  LET Done(d, restored) ==
        [d |-> AssignId(t, Check(d, IsLockedByCurrentThread(t, d),
                                 "Locker: locked by current thread")),
         has_lock_ |-> TRUE, top_level_ |-> TRUE]
      Restored(r) ==
        Done(IF r.result THEN r.d
             ELSE StackGuard_InitThread(StackGuard_ClearThread(r.d)),
             r.result)
      Locked(d) ==
        Restored(RestoreThread(t, IF ~d.is_running THEN V8_Initialize(d)
                                  ELSE d))
  IN  Locked(Lock_SetOwner(t, d0))

Locker_Acquired(t, d0) ==
  LET Done(d, restored) ==
        [d |-> AssignId(t, Check(d, IsLockedByCurrentThread(t, d),
                                 "Locker: locked by current thread")),
         has_lock_ |-> TRUE, top_level_ |-> ~restored]
      Restored(r) ==
        Done(IF r.result THEN r.d
             ELSE StackGuard_InitThread(StackGuard_ClearThread(r.d)),
             r.result)
      Locked(d) ==
        Restored(RestoreThread(t, IF ~d.is_running THEN V8_Initialize(d)
                                  ELSE d))
  IN  Locked(Lock_SetOwner(t, d0))

\* Faulty variant: ~Locker that archives whether top-level or not.
Locker_Destroy_AlwaysArchives(t, g, d0) ==
  LET Asserted(d) ==
        IF g.has_lock_ THEN Unlock_ClearOwner(t, ArchiveThread(t, d))
        ELSE d
  IN  Asserted(Check(d0, IsLockedByCurrentThread(t, d0),
                     "~Locker: locked by current thread"))

\* Faulty variant: ~Locker that does not test has_lock_.
Locker_Destroy_IgnoresHasLock(t, g, d0) ==
  LET Asserted(d) ==
        Unlock_ClearOwner(t, IF g.top_level_ THEN FreeThreadResources(d)
                             ELSE ArchiveThread(t, d))
  IN  Asserted(Check(d0, IsLockedByCurrentThread(t, d0),
                     "~Locker: locked by current thread"))

\* Locker::~Locker of the object g, up to mutex_->Unlock().
Locker_Destroy(t, g, d0) ==
  LET Asserted(d) ==
        IF g.has_lock_
        THEN Unlock_ClearOwner(t, IF g.top_level_ THEN FreeThreadResources(d)
                                  ELSE ArchiveThread(t, d))
        ELSE d
  IN  Asserted(Check(d0, IsLockedByCurrentThread(t, d0),
                     "~Locker: locked by current thread"))

\* Faulty variant: Unlocker that commits its archive at once.
Unlocker_Construct_Eager(t, d) ==
  Unlock_ClearOwner(t, EagerlyArchiveThread(ArchiveThread(t,
    Check(d, IsLockedByCurrentThread(t, d),
          "Unlocker: locked by current thread"))))

\* Unlocker::Unlocker, up to mutex_->Unlock().
Unlocker_Construct(t, d) ==
  Unlock_ClearOwner(t, ArchiveThread(t,
    Check(d, IsLockedByCurrentThread(t, d),
          "Unlocker: locked by current thread")))

\* Unlocker::~Unlocker from the return of mutex_->Lock() on.
\* Faulty variant: ~Unlocker that takes the lock and restores nothing.
Unlocker_Reacquired_NoRestore(t, d) == Lock_SetOwner(t, d)

Unlocker_Reacquired(t, d) == RestoreThread(t, Lock_SetOwner(t, d)).d

\* No single-subsystem archive and restore is under way.
NoRoundTrip == [phase |-> "none"]

ManagerInit ==
  /\ last_id_ = 0
  /\ mutex_ = INVALID
  /\ mutex_owner_ = INVALID
  /\ lazily_archived_thread_ = INVALID
  /\ lazily_archived_thread_state_ = NULL
  /\ states = [n \in {free_anchor_, in_use_anchor_} |-> NewThreadState(n)]
  /\ thread_state_key = [t \in Threads |-> NULL]
  /\ thread_id_key = [t \in Threads |-> NULL]
  /\ live = FreshLive
  /\ active_ = FALSE
  /\ is_running = FALSE
  /\ top_thread_id_ = kInvalidId
  /\ terminate_requested = {}
  /\ pc = [t \in Threads |-> "run"]
  /\ guards = [t \in Threads |-> <<>>]
  /\ constructed = 0
  /\ calls = <<>>
  /\ failed = {}
  /\ last = [op |-> "Init", t |-> INVALID]
  /\ saved = [t \in Threads |-> NoSaved]
  /\ assignOrder = <<>>
  /\ hist = [t \in Threads |-> NoHist]
  /\ singleton_ = NULL
  /\ switchers = <<>>
  /\ workers_started = 0
  /\ preempt_requested = FALSE

\* v8-global-context.cc after static initialisation: the static v8context
\* is constructed and default_context_binder has bound it as the default.
v8context == 1

NoContext == [at |-> "none"]

GlobalContextInit ==
  /\ using_one_v8_instance = TRUE
  /\ default_context = v8context
  /\ context_key = [t \in Threads |-> NULL]
  /\ contexts_made = 1
  /\ alive = {v8context}
  /\ binders = [t \in Threads |-> <<>>]
  /\ binders_made = 0
  /\ in_context = [t \in Threads |-> NoContext]
  /\ bind_failed = {}
  /\ resource_lock = INVALID
  /\ lockers = [t \in Threads |-> <<>>]
  /\ lockers_made = 0
  /\ lock_calls = 0
  /\ unlock_calls = 0

NoScan == [phase |-> "none"]

\* ZoneData::ZoneData(); segments is the heap of Segment objects ever
\* allocated, a Segment's address being its index.
ZoneData ==
  [position_ |-> 0, limit_ |-> 0, segment_bytes_allocated_ |-> 0,
   head_ |-> NULL, segments |-> <<>>, failures |-> 0, op |-> "ZoneData"]

\* LoggerData: current_state_ and the logging switch; objects is the stack
\* of live VMState objects, innermost last, a VMState's address being its
\* serial number.
LoggerData ==
  [current_state_ |-> NULL, is_logging |-> FALSE, objects |-> <<>>,
   made |-> 0]

OtherInit == scan = NoScan /\ zone = ZoneData /\ logger = LoggerData

Init ==
  ManagerInit /\ GlobalContextInit /\ round_trip = NoRoundTrip /\ OtherInit

(***************************************************************************)
(* The actions of a thread t.  pc[t] is "run" outside the guard code.      *)
(***************************************************************************)

\* Locker::Locker by a thread that already holds the lock: the whole
\* constructor.
LockerCtorNested(t) ==
  /\ pc[t] = "run"
  /\ constructed < MaxGuards
  /\ constructed' = constructed + 1
  /\ IsLockedByCurrentThread(t, Data)
  /\ active_' = TRUE
  /\ LET Built(r) ==
           /\ Step(t, "Locker", r.d)
           /\ guards' = Push(t, Guard("Locker", r.has_lock_, r.top_level_,
                                      TRUE))
     IN  Built(Locker_Held(t, Data))
  /\ UNCHANGED <<mutex_, pc>>

\* Faulty variant: the constructor assigns the thread id before it takes
\* the lock.
LockerCtorBegin_AssignsIdFirst(t) ==
  /\ pc[t] = "run"
  /\ constructed < MaxGuards
  /\ constructed' = constructed + 1
  /\ ~IsLockedByCurrentThread(t, Data)
  /\ active_' = TRUE
  /\ Step(t, "Locker:begin", AssignId(t, Data))
  /\ guards' = Push(t, Guard("Locker", FALSE, TRUE, FALSE))
  /\ pc' = [pc EXCEPT ![t] = "Locker_Lock"]
  /\ UNCHANGED mutex_

\* Locker::Locker by a thread that does not hold the lock, up to the
\* call of mutex_->Lock().
LockerCtorBegin(t) ==
  /\ pc[t] = "run"
  /\ constructed < MaxGuards
  /\ constructed' = constructed + 1
  /\ ~IsLockedByCurrentThread(t, Data)
  /\ active_' = TRUE
  /\ Step(t, "Locker:begin", Data)
  /\ guards' = Push(t, Guard("Locker", FALSE, TRUE, FALSE))
  /\ pc' = [pc EXCEPT ![t] = "Locker_Lock"]
  /\ UNCHANGED mutex_

\* mutex_->Lock() returns to a thread blocked in it.
MutexLock(t) ==
  /\ pc[t] \in {"Locker_Lock", "Unlocker_Lock"}
  /\ mutex_ = INVALID
  /\ mutex_' = t
  /\ pc' = [pc EXCEPT ![t] = IF pc[t] = "Locker_Lock" THEN "Locker_Locked"
                             ELSE "Unlocker_Locked"]
  /\ Step(t, "Mutex::Lock", Data)
  /\ UNCHANGED <<constructed, active_, guards>>

\* The rest of Locker::Locker once the mutex is held.
LockerCtorFinish(t) ==
  /\ pc[t] = "Locker_Locked"
  /\ LET Built(r) ==
           /\ Step(t, "Locker", r.d)
           /\ guards' = SetTop(t, Guard("Locker", r.has_lock_, r.top_level_,
                                       FALSE))
     IN  Built(Locker_Acquired(t, Data))
  /\ pc' = [pc EXCEPT ![t] = "run"]
  /\ UNCHANGED <<constructed, mutex_, active_>>

\* Locker::~Locker of the innermost guard, up to the call of
\* mutex_->Unlock() when the object has the lock.
LockerDtor(t) ==
  /\ pc[t] = "run"
  /\ guards[t] # <<>>
  /\ Top(t).kind = "Locker"
  /\ Step(t, "~Locker", Locker_Destroy(t, Top(t), Data))
  /\ pc' = [pc EXCEPT ![t] = IF Top(t).has_lock_ THEN "Locker_Unlock"
                             ELSE "run"]
  /\ guards' = Pop(t)
  /\ UNCHANGED <<constructed, mutex_, active_>>

\* Faulty variant: Unlock returns without releasing the mutex.
MutexUnlock_KeepsMutex(t) ==
  /\ pc[t] \in {"Locker_Unlock", "Unlocker_Unlock"}
  /\ pc' = [pc EXCEPT ![t] = "run"]
  /\ Step(t, "Mutex::Unlock", Data)
  /\ UNCHANGED <<constructed, mutex_, active_, guards>>

\* mutex_->Unlock() at the end of ThreadManager::Unlock.
MutexUnlock(t) ==
  /\ pc[t] \in {"Locker_Unlock", "Unlocker_Unlock"}
  /\ mutex_' = INVALID
  /\ pc' = [pc EXCEPT ![t] = "run"]
  /\ Step(t, "Mutex::Unlock", Data)
  /\ UNCHANGED <<constructed, active_, guards>>

\* Unlocker::Unlocker, up to the call of mutex_->Unlock().
UnlockerCtor(t) ==
  /\ pc[t] = "run"
  /\ constructed < MaxGuards
  /\ constructed' = constructed + 1
  /\ IsLockedByCurrentThread(t, Data)
  /\ Step(t, "Unlocker", Unlocker_Construct(t, Data))
  /\ guards' = Push(t, Guard("Unlocker", FALSE, FALSE, TRUE))
  /\ pc' = [pc EXCEPT ![t] = "Unlocker_Unlock"]
  /\ UNCHANGED <<mutex_, active_>>

\* Unlocker::~Unlocker, up to the call of mutex_->Lock().
UnlockerDtorBegin(t) ==
  /\ pc[t] = "run"
  /\ guards[t] # <<>>
  /\ Top(t).kind = "Unlocker"
  /\ Step(t, "~Unlocker:begin",
          Check(Data, ~IsLockedByCurrentThread(t, Data),
                "~Unlocker: not locked by current thread"))
  /\ pc' = [pc EXCEPT ![t] = "Unlocker_Lock"]
  /\ UNCHANGED <<constructed, mutex_, active_, guards>>

\* The rest of Unlocker::~Unlocker once the mutex is held.
UnlockerDtorFinish(t) ==
  /\ pc[t] = "Unlocker_Locked"
  /\ Step(t, "~Unlocker", Unlocker_Reacquired(t, Data))
  /\ guards' = Pop(t)
  /\ pc' = [pc EXCEPT ![t] = "run"]
  /\ UNCHANGED <<constructed, mutex_, active_>>

\* The thread that holds the lock runs interpreter code, which leaves the
\* live state of every subsystem as some state v.
Work(t) ==
  /\ pc[t] = "run"
  /\ IsLockedByCurrentThread(t, Data)
  /\ \E v \in 1..MaxVal :
       Step(t, "Work", [Data EXCEPT !.live = [s \in Subsystems |-> <<s, v>>]])
  /\ UNCHANGED <<constructed, mutex_, active_, pc, guards>>

ThreadNext(t) ==
  \/ LockerCtorNested(t)
  \/ LockerCtorBegin(t)
  \/ MutexLock(t)
  \/ LockerCtorFinish(t)
  \/ LockerDtor(t)
  \/ MutexUnlock(t)
  \/ UnlockerCtor(t)
  \/ UnlockerDtorBegin(t)
  \/ UnlockerDtorFinish(t)
  \/ Work(t)

Next == \E t \in Threads : ThreadNext(t)

Spec == Init /\ [][Next]_vars

\* The code's own steps are taken when they can be: a thread blocked in
\* mutex_->Lock() gets a mutex that stays free, and a constructor or
\* destructor that is past its blocking call runs to its end.  Nothing is
\* assumed about when the embedder constructs or destroys a guard.  Each
\* condition is stated on the pc of the thread: the step of pc[t] from one
\* value to the next is the step of the action named beside it.
PcStep(t, from, to) == pc[t] = from /\ pc' = [pc EXCEPT ![t] = to]

Fairness ==
  \A t \in Threads :
    \* MutexLock(t)
    /\ WF_pc(mutex_ = INVALID /\ PcStep(t, "Locker_Lock", "Locker_Locked"))
    /\ WF_pc(mutex_ = INVALID /\ PcStep(t, "Unlocker_Lock", "Unlocker_Locked"))
    \* LockerCtorFinish(t), UnlockerDtorFinish(t)
    /\ WF_pc(PcStep(t, "Locker_Locked", "run"))
    /\ WF_pc(PcStep(t, "Unlocker_Locked", "run"))
    \* MutexUnlock(t)
    /\ WF_pc(PcStep(t, "Locker_Unlock", "run"))
    /\ WF_pc(PcStep(t, "Unlocker_Unlock", "run"))

FairSpec == Spec /\ Fairness

(***************************************************************************)
(* TerminateExecution.  What it does depends on the ThreadState lists and  *)
(* ids only, so this specification runs the guards without interpreter     *)
(* work in between.                                                        *)
(***************************************************************************)

\* ThreadManager::TerminateExecution(thread_id) by the thread that holds
\* the lock, for the id of any thread or for an id no thread has.
TerminateExecutionCall(t) ==
  /\ pc[t] = "run"
  /\ IsLockedByCurrentThread(t, Data)
  /\ \E thread_id \in 0..NumThreads :
       Step(t, "TerminateExecution", TerminateExecution(thread_id, Data))
  /\ UNCHANGED <<constructed, mutex_, active_, pc, guards>>

TerminateNext ==
  \E t \in Threads :
    \/ LockerCtorNested(t)
    \/ LockerCtorBegin(t)
    \/ MutexLock(t)
    \/ LockerCtorFinish(t)
    \/ LockerDtor(t)
    \/ MutexUnlock(t)
    \/ UnlockerCtor(t)
    \/ UnlockerDtorBegin(t)
    \/ UnlockerDtorFinish(t)
    \/ TerminateExecutionCall(t)

TerminateSpec == Init /\ [][TerminateNext]_vars

(***************************************************************************)
(* ThreadManager::Iterate.  The visit of a ThreadState's buffer by the     *)
(* three root-holding subsystems is logged as one call, with the address   *)
(* of the ThreadState.  The loop has no bound of its own; the model stops  *)
(* a walk that has made more visits than there are objects and logs it.    *)
(***************************************************************************)
RECURSIVE IterateFrom(_, _, _)
IterateFrom(d, state, fuel) ==
  IF state = NULL THEN d
  ELSE IF fuel = 0 THEN Called(d, "Iterate:unterminated")
  ELSE IterateFrom(Called(d, "Iterate:" \o ToString(state)),
                   Next_(d.states, state), fuel - 1)

Iterate(d) ==
  IterateFrom(d, FirstInUse(d.states), Cardinality(DOMAIN d.states) + 1)

\* The garbage collector, running in the thread that holds the lock, scans
\* the roots of the archived threads.
IterateCall(t) ==
  /\ pc[t] = "run"
  /\ IsLockedByCurrentThread(t, Data)
  /\ Step(t, "Iterate", Iterate(Data))
  /\ UNCHANGED <<constructed, mutex_, active_, pc, guards>>

IterateNext ==
  \E t \in Threads :
    \/ LockerCtorNested(t)
    \/ LockerCtorBegin(t)
    \/ MutexLock(t)
    \/ LockerCtorFinish(t)
    \/ LockerDtor(t)
    \/ MutexUnlock(t)
    \/ UnlockerCtor(t)
    \/ UnlockerDtorBegin(t)
    \/ UnlockerDtorFinish(t)
    \/ IterateCall(t)

IterateSpec == Init /\ [][IterateNext]_vars

(***************************************************************************)
(* The queries Locker::IsActive and Locker::IsLocked, called by a thread   *)
(* outside the guard code.  The value returned is logged with the call.    *)
(***************************************************************************)
Locker_IsActive == active_

\* Faulty variant: IsLocked that reports whether any thread owns the lock.
Locker_IsLocked_AnyOwner(t, d) == IsValid(d.mutex_owner_)

Locker_IsLocked(t, d) == IsLockedByCurrentThread(t, d)

IsActiveCall(t) ==
  /\ pc[t] = "run"
  /\ Step(t, "IsActive", Called(Data, "IsActive:" \o ToString(Locker_IsActive)))
  /\ UNCHANGED <<constructed, mutex_, active_, pc, guards>>

IsLockedCall(t) ==
  /\ pc[t] = "run"
  /\ Step(t, "IsLocked",
          Called(Data, "IsLocked:" \o ToString(Locker_IsLocked(t, Data))))
  /\ UNCHANGED <<constructed, mutex_, active_, pc, guards>>

QueryNext ==
  \E t \in Threads :
    \/ LockerCtorNested(t)
    \/ LockerCtorBegin(t)
    \/ MutexLock(t)
    \/ LockerCtorFinish(t)
    \/ LockerDtor(t)
    \/ MutexUnlock(t)
    \/ UnlockerCtor(t)
    \/ UnlockerDtorBegin(t)
    \/ UnlockerDtorFinish(t)
    \/ IsActiveCall(t)
    \/ IsLockedCall(t)

QuerySpec == Init /\ [][QueryNext]_vars

(***************************************************************************)
(* Scanning an archived buffer.  The footprints of the subsystems are      *)
(* inputs: scan.size gives each subsystem's ArchiveSpacePerThread().  A    *)
(* byte of the buffer is <<subsystem, k>> once the subsystem's Archive has *)
(* written its k-th byte there.  The subsystems' Archive, Iterate and      *)
(* MarkCompact functions follow the contract of the cursor: each handles   *)
(* its footprint at the cursor and returns the cursor advanced by it.      *)
(***************************************************************************)
MaxFootprint == 2

RECURSIVE SpaceOf(_, _)
SpaceOf(size, order) ==
  IF order = <<>> THEN 0 ELSE size[Head(order)] + SpaceOf(size, Tail(order))

ScanInputs ==
  {[phase |-> "live", size |-> size, reads |-> <<>>,
    data |-> [i \in 1..SpaceOf(size, SpaceOrder) |-> Uninit]] :
     size \in [Subsystems -> 1..MaxFootprint]}

ScanInit ==
  /\ ManagerInit /\ GlobalContextInit /\ round_trip = NoRoundTrip
  /\ scan \in ScanInputs
  /\ zone = ZoneData
  /\ logger = LoggerData

ScanStep(r) ==
  /\ scan' = r
  /\ UNCHANGED <<last_id_, mutex_, mutex_owner_, lazily_archived_thread_,
                 lazily_archived_thread_state_, states, thread_state_key,
                 thread_id_key, live, active_, is_running, top_thread_id_,
                 terminate_requested, guards, constructed, failed, saved,
                 assignOrder, hist, pc, calls, last, preemptVars, round_trip,
                 using_one_v8_instance, bindVars, lockerVars, zone, logger>>

\* to = <Subsystem>::Archive...(to), one subsystem after the other
RECURSIVE ScanArchiveEach(_, _, _, _)
ScanArchiveEach(order, size, data, to) ==
  IF order = <<>> THEN data
  ELSE ScanArchiveEach(
         Tail(order), size,
         [i \in DOMAIN data |->
            IF to <= i /\ i < to + size[Head(order)]
            THEN <<Head(order), i - to>> ELSE data[i]],
         to + size[Head(order)])

\* What a subsystem's scan reads: its footprint, from the cursor on.
ScanRead(s, size, data, from) ==
  [by |-> s, from |-> from,
   bytes |-> [k \in 1..size[s] |->
                IF from + k - 1 \in DOMAIN data THEN data[from + k - 1]
                ELSE <<"out of bounds", 0>>]]

\* Faulty variant: Iterate that scans the relocatables before Top.
IterateOrder_TopLast == <<"HandleScopeImplementer", "Relocatable", "Top">>

\* The subsystems ThreadManager::Iterate hands the cursor to.
IterateOrder == <<"HandleScopeImplementer", "Top", "Relocatable">>

\* data = <Subsystem>::Iterate(v, data), one subsystem after the other
RECURSIVE ScanIterateEach(_, _, _, _)
ScanIterateEach(order, size, data, from) ==
  IF order = <<>> THEN <<>>
  ELSE <<ScanRead(Head(order), size, data, from)>>
       \o ScanIterateEach(Tail(order), size, data, from + size[Head(order)])

\* data += HandleScopeImplementer::ArchiveSpacePerThread();
\* Top::MarkCompactPrologue(is_compacting, data), and the same for Epilogue
ScanMarkCompact(size, data) ==
  <<ScanRead("Top", size, data, 1 + size["HandleScopeImplementer"])>>

\* EagerlyArchiveThread's walk over state->data()
ScanArchive ==
  /\ scan.phase = "live"
  /\ ScanStep([scan EXCEPT
                 !.phase = "archived",
                 !.data = ScanArchiveEach(ArchiveOrder, scan.size, scan.data,
                                          1)])

\* ThreadManager::Iterate's walk over state->data()
ScanIterate ==
  /\ scan.phase # "live"
  /\ ScanStep([scan EXCEPT
                 !.phase = "Iterate",
                 !.reads = ScanIterateEach(IterateOrder, scan.size, scan.data,
                                           1)])

ScanMarkCompactPrologue ==
  /\ scan.phase # "live"
  /\ ScanStep([scan EXCEPT
                 !.phase = "MarkCompactPrologue",
                 !.reads = ScanMarkCompact(scan.size, scan.data)])

ScanMarkCompactEpilogue ==
  /\ scan.phase # "live"
  /\ ScanStep([scan EXCEPT
                 !.phase = "MarkCompactEpilogue",
                 !.reads = ScanMarkCompact(scan.size, scan.data)])

ScanNext ==
  \/ ScanArchive
  \/ ScanIterate
  \/ ScanMarkCompactPrologue
  \/ ScanMarkCompactEpilogue

ScanSpec == ScanInit /\ [][ScanNext]_vars

(***************************************************************************)
(* The zone allocator.  A Segment's address is SegmentStride times its     *)
(* index in zone.segments, so that segments never overlap and address 0    *)
(* is NULL; sizes are in bytes, scaled down with the ratios of the         *)
(* constants kept: several segments of a chain can be small enough to be   *)
(* kept, and a request can exceed the maximum segment size.  deletes       *)
(* counts the calls of Malloced::Delete on a segment.                      *)
(***************************************************************************)
MaxSegments == 4     \* Segments allocated in a run
MaxFailures == 1     \* failed Malloced::New calls in a run
kAlignment == 4
sizeofSegment == 8
kMinimumSegmentSize == 16
kMaximumKeptSegmentSize == 48
kMaximumSegmentSize == 64
SegmentStride == 128

ZoneSizes == {4, 8, 60}

RoundUp(x, m) == ((x + m - 1) \div m) * m

Max(a, b) == IF a > b THEN a ELSE b

SegmentAddress(id) == id * SegmentStride

Segment_start(z, id) == SegmentAddress(id) + sizeofSegment

Segment_end(z, id) == SegmentAddress(id) + z.segments[id].size_

\* Segment::New(size); ok tells whether Malloced::New returned memory.
Segment_New(z, size, ok) ==
  LET result == IF ok THEN Len(z.segments) + 1 ELSE NULL
      z1 == [z EXCEPT !.segment_bytes_allocated_ = @ + size,
                      !.failures = IF ok THEN @ ELSE @ + 1]
  IN  IF result # NULL
      THEN [zone |-> [z1 EXCEPT
                        !.segments = Append(@, [next_ |-> z.head_,
                                                size_ |-> size,
                                                deletes |-> 0]),
                        !.head_ = result],
            result |-> result]
      ELSE [zone |-> z1, result |-> NULL]

\* Segment::Delete(segment, size)
Segment_Delete(z, segment, size) ==
  [z EXCEPT !.segment_bytes_allocated_ = @ - size,
            !.segments[segment].deletes = @ + 1]

\* The first loop of DeleteAll: the first segment from keep on that is not
\* larger than kMaximumKeptSegmentSize.
RECURSIVE FindKeep(_, _)
FindKeep(z, keep) ==
  IF keep # NULL /\ z.segments[keep].size_ > kMaximumKeptSegmentSize
  THEN FindKeep(z, z.segments[keep].next_)
  ELSE keep

\* Faulty variant: the kept segment stays linked to its successor.
RECURSIVE DeleteOthers_NoClearNext(_, _, _)
DeleteOthers_NoClearNext(z, current, keep) ==
  IF current = NULL THEN z
  ELSE LET next == z.segments[current].next_
       IN  IF current = keep
           THEN DeleteOthers_NoClearNext(z, next, keep)
           ELSE DeleteOthers_NoClearNext(
                  Segment_Delete(z, current, z.segments[current].size_),
                  next, keep)

\* The second loop of DeleteAll, from current on.
RECURSIVE DeleteOthers(_, _, _)
DeleteOthers(z, current, keep) ==
  IF current = NULL THEN z
  ELSE LET next == z.segments[current].next_
       IN  IF current = keep
           THEN DeleteOthers([z EXCEPT !.segments[current].next_ = NULL],
                             next, keep)
           ELSE DeleteOthers(
                  Segment_Delete(z, current, z.segments[current].size_),
                  next, keep)

\* Zone::DeleteAll()
Zone_DeleteAll(z) ==
  LET keep == FindKeep(z, z.head_)
      z1 == DeleteOthers(z, z.head_, keep)
  IN  IF keep # NULL
      THEN [z1 EXCEPT !.position_ = RoundUp(Segment_start(z1, keep), kAlignment),
                      !.limit_ = Segment_end(z1, keep),
                      !.head_ = keep]
      ELSE [z1 EXCEPT !.position_ = 0, !.limit_ = 0, !.head_ = keep]

\* Zone::NewExpand(size): the zone afterwards and the address returned.
Zone_NewExpand(z, size, ok) ==
  LET head == z.head_
      old_size == IF head = NULL THEN 0 ELSE z.segments[head].size_
      kSegmentOverhead == sizeofSegment + kAlignment
      size0 == kSegmentOverhead + size + (old_size * 2)
      new_size == IF size0 < kMinimumSegmentSize THEN kMinimumSegmentSize
                  ELSE IF size0 > kMaximumSegmentSize
                       THEN Max(kSegmentOverhead + size, kMaximumSegmentSize)
                       ELSE size0
      made == Segment_New(z, new_size, ok)
      segment == made.result
      result == RoundUp(Segment_start(made.zone, segment), kAlignment)
  IN  IF segment = NULL
      THEN [zone |-> made.zone, result |-> NULL]
      ELSE [zone |-> [made.zone EXCEPT
                        !.position_ = result + size,
                        !.limit_ = Segment_end(made.zone, segment)],
            result |-> result]

\* Zone::New(size): bump allocation, expanding when the segment is full.
Zone_New(z, size, ok) ==
  IF z.position_ + size > z.limit_
  THEN Zone_NewExpand(z, size, ok).zone
  ELSE [z EXCEPT !.position_ = @ + size]

ZoneStep(z, op) ==
  /\ zone' = [z EXCEPT !.op = op]
  /\ UNCHANGED <<last_id_, mutex_, mutex_owner_, lazily_archived_thread_,
                 lazily_archived_thread_state_, states, thread_state_key,
                 thread_id_key, live, active_, is_running, top_thread_id_,
                 terminate_requested, guards, constructed, failed, saved,
                 assignOrder, hist, pc, calls, last, preemptVars, round_trip,
                 using_one_v8_instance, bindVars, lockerVars, scan, logger>>

ZoneNew ==
  \E size \in ZoneSizes, ok \in BOOLEAN :
    /\ zone.position_ + size > zone.limit_ =>
         /\ Len(zone.segments) < MaxSegments
         /\ ok \/ zone.failures < MaxFailures
    /\ ZoneStep(Zone_New(zone, size, ok), "Zone::New")

ZoneDeleteAll == ZoneStep(Zone_DeleteAll(zone), "Zone::DeleteAll")

ZoneNext == ZoneNew \/ ZoneDeleteAll

ZoneSpec == Init /\ [][ZoneNext]_vars

(***************************************************************************)
(* The VM state stack of the logger.  VMState objects are constructed and  *)
(* destroyed in properly nested scopes, innermost destroyed first; the     *)
(* logging switch may change at any point.  A VMState's address is its     *)
(* serial number; entered records current_state_ on entry to the           *)
(* constructor.                                                            *)
(***************************************************************************)
MaxStates == 4       \* VMState objects constructed in a run

StateTags == {"JS", "GC", "EXTERNAL"}

ENABLE_HEAP_PROTECTION == FALSE

\* VMState::VMState(state)
VMState_Construct(lg, state) ==
  LET this == lg.made + 1
      disabled == [disabled_ |-> TRUE, external_callback_ |-> NULL,
                   entered |-> lg.current_state_]
      tag == IF ~ENABLE_HEAP_PROTECTION /\ state = "EXTERNAL" THEN "OTHER"
             ELSE state
  IN  IF ~lg.is_logging
      THEN [lg EXCEPT !.objects = Append(@, disabled), !.made = this]
      ELSE [lg EXCEPT
              !.objects = Append(@, [disabled_ |-> FALSE,
                                     external_callback_ |-> NULL,
                                     state_ |-> tag,
                                     previous_ |-> lg.current_state_,
                                     address |-> this,
                                     entered |-> lg.current_state_]),
              !.made = this,
              !.current_state_ = this]

\* Faulty variant: the destructor tests the logging switch.
VMState_Destroy_TestsLogging(lg) ==
  LET this == lg.objects[Len(lg.objects)]
      popped == [lg EXCEPT !.objects = SubSeq(@, 1, Len(@) - 1)]
  IN  IF ~lg.is_logging THEN popped
      ELSE [popped EXCEPT !.current_state_ =
              IF this.disabled_ THEN NULL ELSE this.previous_]

\* VMState::~VMState() of the innermost live object
VMState_Destroy(lg) ==
  LET this == lg.objects[Len(lg.objects)]
      popped == [lg EXCEPT !.objects = SubSeq(@, 1, Len(@) - 1)]
  IN  IF this.disabled_ THEN popped
      ELSE [popped EXCEPT !.current_state_ = this.previous_]

LoggerStep(lg) ==
  /\ logger' = lg
  /\ UNCHANGED <<last_id_, mutex_, mutex_owner_, lazily_archived_thread_,
                 lazily_archived_thread_state_, states, thread_state_key,
                 thread_id_key, live, active_, is_running, top_thread_id_,
                 terminate_requested, guards, constructed, failed, saved,
                 assignOrder, hist, pc, calls, last, preemptVars, round_trip,
                 using_one_v8_instance, bindVars, lockerVars, scan, zone>>

VMStateCtor ==
  /\ logger.made < MaxStates
  /\ \E state \in StateTags : LoggerStep(VMState_Construct(logger, state))

VMStateDtor ==
  /\ logger.objects # <<>>
  /\ LoggerStep(VMState_Destroy(logger))

\* Logging is switched on or off.
SetLogging ==
  LoggerStep([logger EXCEPT !.is_logging = ~@])

LoggerNext == VMStateCtor \/ VMStateDtor \/ SetLogging

LoggerSpec == Init /\ [][LoggerNext]_vars

(***************************************************************************)
(* Contract violations.  Besides using the guards properly, a thread may   *)
(* call ThreadManager::ArchiveThread or RestoreThread directly, or         *)
(* construct an Unlocker without holding the lock.  Such a call is the     *)
(* last step of the run: what the program does after a broken contract is  *)
(* not followed.                                                           *)
(***************************************************************************)
DirectCalls == {"ArchiveThread!", "RestoreThread!", "Unlocker!"}

\* ThreadManager::ArchiveThread called directly by thread t
DirectArchiveThread(t) ==
  /\ pc[t] = "run"
  /\ Step(t, "ArchiveThread!", ArchiveThread(t, Data))
  /\ UNCHANGED <<constructed, mutex_, active_, pc, guards>>

\* ThreadManager::RestoreThread called directly by thread t
DirectRestoreThread(t) ==
  /\ pc[t] = "run"
  /\ Step(t, "RestoreThread!", RestoreThread(t, Data).d)
  /\ UNCHANGED <<constructed, mutex_, active_, pc, guards>>

\* Unlocker::Unlocker by a thread that does not hold the lock, up to the
\* call of mutex_->Unlock()
UnlockerCtorUnlocked(t) ==
  /\ pc[t] = "run"
  /\ ~IsLockedByCurrentThread(t, Data)
  /\ Step(t, "Unlocker!", Unlocker_Construct(t, Data))
  /\ UNCHANGED <<constructed, mutex_, active_, pc, guards>>

ContractNext ==
  /\ last.op \notin DirectCalls
  /\ \E t \in Threads :
       \/ LockerCtorNested(t)
       \/ LockerCtorBegin(t)
       \/ MutexLock(t)
       \/ LockerCtorFinish(t)
       \/ LockerDtor(t)
       \/ MutexUnlock(t)
       \/ UnlockerCtor(t)
       \/ UnlockerDtorBegin(t)
       \/ UnlockerDtorFinish(t)
       \/ DirectArchiveThread(t)
       \/ DirectRestoreThread(t)
       \/ UnlockerCtorUnlocked(t)

ContractSpec == Init /\ [][ContractNext]_vars

(***************************************************************************)
(* ContextSwitcher.  A ContextSwitcher object is a record; at is where its *)
(* thread is in Run: "Run" before the test of keep_going_, "Sleep" inside  *)
(* the loop before OS::Sleep, "Preempt" before StackGuard::Preempt, and    *)
(* "exited".  A deleted object keeps its record, marked deleted.           *)
(* keep_going_ is a plain field that StopPreemption writes and Run reads   *)
(* without synchronisation: visible says whether the last write has        *)
(* reached the switcher's thread, which it has at the latest when an       *)
(* OS::Sleep of that thread returns.  sleeps and requests count the        *)
(* OS::Sleep and StackGuard::Preempt calls made since keep_going_ was      *)
(* cleared; a deleted object has no counts.  The                           *)
(* specification runs top-level Lockers, the callers of StartPreemption    *)
(* and StopPreemption, and the switcher threads.                           *)
(***************************************************************************)
Intervals == {10, 20}

tmVars == <<last_id_, mutex_, mutex_owner_, lazily_archived_thread_,
            lazily_archived_thread_state_, states, thread_state_key,
            thread_id_key, live, active_, is_running, top_thread_id_,
            terminate_requested, guards, constructed, failed, saved,
            assignOrder, hist, round_trip, using_one_v8_instance, bindVars,
            lockerVars, otherVars>>

ContextSwitcher(every_n_ms) ==
  [keep_going_ |-> TRUE, sleep_ms_ |-> every_n_ms, at |-> "Run",
   deleted |-> FALSE, visible |-> TRUE, sleeps |-> 0, requests |-> 0]

\* Faulty variant: StartPreemption that starts a switcher whether one is
\* running or not.
StartPreemption_AlwaysStarts(t) ==
  /\ pc[t] = "run"
  /\ IsLockedByCurrentThread(t, Data)
  /\ workers_started < MaxWorkers
  /\ \E every_n_ms \in Intervals :
       /\ switchers' = Append(switchers, ContextSwitcher(every_n_ms))
       /\ singleton_' = Len(switchers) + 1
       /\ workers_started' = workers_started + 1
       /\ calls' = <<"StartPreemption:" \o ToString(every_n_ms)>>
  /\ last' = [op |-> "StartPreemption", t |-> t]
  /\ UNCHANGED <<tmVars, pc, preempt_requested>>

\* ContextSwitcher::StartPreemption(every_n_ms) by the thread that holds
\* the lock; Thread::Start leaves the new thread at the top of Run.
StartPreemption(t) ==
  /\ pc[t] = "run"
  /\ IsLockedByCurrentThread(t, Data)
  /\ singleton_ = NULL => workers_started < MaxWorkers
  /\ \E every_n_ms \in Intervals :
       /\ IF singleton_ = NULL
          THEN /\ switchers' = Append(switchers, ContextSwitcher(every_n_ms))
               /\ singleton_' = Len(switchers) + 1
               /\ workers_started' = workers_started + 1
          ELSE /\ switchers' = [switchers EXCEPT
                                  ![singleton_].sleep_ms_ = every_n_ms]
               /\ UNCHANGED <<singleton_, workers_started>>
       /\ calls' = <<"StartPreemption:" \o ToString(every_n_ms)>>
  /\ last' = [op |-> "StartPreemption", t |-> t]
  /\ UNCHANGED <<tmVars, pc, preempt_requested>>

\* ContextSwitcher::StopPreemption up to the call of Join().
StopPreemptionBegin(t) ==
  /\ pc[t] = "run"
  /\ IsLockedByCurrentThread(t, Data)
  /\ IF singleton_ # NULL
     THEN /\ switchers' = [switchers EXCEPT ![singleton_].keep_going_ = FALSE,
                                           ![singleton_].visible = FALSE]
          /\ pc' = [pc EXCEPT ![t] = "StopPreemption_Join"]
     ELSE UNCHANGED <<switchers, pc>>
  /\ calls' = <<"StopPreemption">>
  /\ last' = [op |-> "StopPreemption:begin", t |-> t]
  /\ UNCHANGED <<tmVars, singleton_, workers_started, preempt_requested>>

\* Faulty variant: StopPreemption that does not wait for the thread.
StopPreemptionJoined_NoJoin(t) ==
  /\ pc[t] = "StopPreemption_Join"
  /\ switchers' = [switchers EXCEPT ![singleton_].deleted = TRUE,
                                   ![singleton_].visible = TRUE,
                                   ![singleton_].sleeps = 0,
                                   ![singleton_].requests = 0]
  /\ singleton_' = NULL
  /\ pc' = [pc EXCEPT ![t] = "run"]
  /\ calls' = <<>>
  /\ last' = [op |-> "StopPreemption", t |-> t]
  /\ UNCHANGED <<tmVars, workers_started, preempt_requested>>

\* Join() returns once the switcher thread has exited; the rest of
\* StopPreemption deletes the object and clears singleton_.
StopPreemptionJoined(t) ==
  /\ pc[t] = "StopPreemption_Join"
  /\ switchers[singleton_].at = "exited"
  /\ switchers' = [switchers EXCEPT ![singleton_].deleted = TRUE,
                                   ![singleton_].visible = TRUE,
                                   ![singleton_].sleeps = 0,
                                   ![singleton_].requests = 0]
  /\ singleton_' = NULL
  /\ pc' = [pc EXCEPT ![t] = "run"]
  /\ calls' = <<>>
  /\ last' = [op |-> "StopPreemption", t |-> t]
  /\ UNCHANGED <<tmVars, workers_started, preempt_requested>>

\* A step of the thread of switcher w that leaves the object as sw.
RunStep(w, sw, cs) ==
  /\ switchers' = [switchers EXCEPT ![w] = sw]
  /\ calls' = cs
  /\ last' = [op |-> "ContextSwitcher::Run", t |-> INVALID]
  /\ UNCHANGED <<tmVars, pc, singleton_, workers_started>>

\* Faulty variant: Run that tests keep_going_ after the sleep as well.
RunSleep_TestsAgain(w) ==
  /\ switchers[w].at = "Sleep"
  /\ RunStep(w, [switchers[w] EXCEPT
                   !.at = IF switchers[w].keep_going_ THEN "Preempt"
                          ELSE "exited",
                   !.visible = TRUE,
                   !.sleeps = IF switchers[w].keep_going_ THEN @ ELSE @ + 1],
             <<"OS::Sleep">>)
  /\ UNCHANGED preempt_requested

\* ContextSwitcher::Run: while (keep_going_).  The test may still see the
\* value keep_going_ had before a write that is not visible yet.
RunTest(w) ==
  /\ switchers[w].at = "Run"
  /\ \E seen \in IF switchers[w].visible THEN {switchers[w].keep_going_}
                  ELSE {switchers[w].keep_going_, TRUE} :
       RunStep(w, [switchers[w] EXCEPT
                     !.at = IF seen THEN "Sleep" ELSE "exited"], <<>>)
  /\ UNCHANGED preempt_requested

\* ContextSwitcher::Run: OS::Sleep(sleep_ms_)
RunSleep(w) ==
  /\ switchers[w].at = "Sleep"
  /\ RunStep(w, [switchers[w] EXCEPT
                   !.at = "Preempt",
                   !.visible = TRUE,
                   !.sleeps = IF switchers[w].keep_going_ THEN @ ELSE @ + 1],
             <<"OS::Sleep">>)
  /\ UNCHANGED preempt_requested

\* Faulty variant: a switcher thread that takes the V8 lock to deliver its
\* request.
RunPreempt_TakesLock(w) ==
  /\ switchers[w].at = "Preempt"
  /\ mutex_ = INVALID
  /\ RunStep(w, [switchers[w] EXCEPT
                   !.at = "Run",
                   !.requests = IF switchers[w].keep_going_ THEN @
                                ELSE @ + 1],
             <<"StackGuard::Preempt">>)
  /\ preempt_requested' = TRUE

\* ContextSwitcher::Run: StackGuard::Preempt()
RunPreempt(w) ==
  /\ switchers[w].at = "Preempt"
  /\ RunStep(w, [switchers[w] EXCEPT
                   !.at = "Run",
                   !.requests = IF switchers[w].keep_going_ THEN @
                                ELSE @ + 1],
             <<"StackGuard::Preempt">>)
  /\ preempt_requested' = TRUE

\* The running thread takes the preemption request at a safe point and
\* acknowledges it with ContextSwitcher::PreemptionReceived.
PreemptionReceived(t) ==
  /\ pc[t] = "run"
  /\ IsLockedByCurrentThread(t, Data)
  /\ preempt_requested
  /\ preempt_requested' = FALSE
  /\ calls' = <<"PreemptionReceived">>
  /\ last' = [op |-> "PreemptionReceived", t |-> t]
  /\ UNCHANGED <<tmVars, pc, singleton_, switchers, workers_started>>

PreemptNext ==
  \/ \E t \in Threads :
       \/ LockerCtorBegin(t)
       \/ MutexLock(t)
       \/ LockerCtorFinish(t)
       \/ LockerDtor(t)
       \/ MutexUnlock(t)
       \/ StartPreemption(t)
       \/ StopPreemptionBegin(t)
       \/ StopPreemptionJoined(t)
       \/ PreemptionReceived(t)
  \/ \E w \in DOMAIN switchers :
       \/ RunTest(w)
       \/ RunSleep(w)
       \/ RunPreempt(w)

PreemptSpec == Init /\ [][PreemptNext]_vars

\* The switcher's thread is scheduled: OS::Sleep returns and the thread
\* runs on.  A thread blocked in Join() runs on once the joined thread has
\* exited.
PreemptFairness ==
  /\ \A w \in 1..MaxWorkers :
       WF_vars(w \in DOMAIN switchers
                 /\ (RunTest(w) \/ RunSleep(w) \/ RunPreempt(w)))
  /\ \A t \in Threads : WF_vars(StopPreemptionJoined(t))

PreemptFairSpec == PreemptSpec /\ PreemptFairness

(***************************************************************************)
(* Guards and a running ContextSwitcher together.  RestoreThread takes the *)
(* ExecutionAccess lock, after ThreadManager::Lock, for the rest of the    *)
(* function; StackGuard::Preempt, called by the switcher's thread, takes   *)
(* the same lock while it sets the request.  The switcher's thread is at   *)
(* "InPreempt" while it holds that lock; a thread holds it only within the *)
(* step that runs RestoreThread.  One switcher is started in a run.        *)
(***************************************************************************)
ExecutionAccessFree ==
  \A w \in DOMAIN switchers : switchers[w].at # "InPreempt"

\* Faulty variant: StackGuard::Preempt that waits for the V8 lock while it
\* holds ExecutionAccess.
RunPreemptLeave_TakesLock(w) ==
  /\ switchers[w].at = "InPreempt"
  /\ mutex_ = INVALID
  /\ RunStep(w, [switchers[w] EXCEPT
                   !.at = "Run",
                   !.requests = IF switchers[w].keep_going_ THEN @
                                ELSE @ + 1],
             <<"StackGuard::Preempt">>)
  /\ preempt_requested' = TRUE

\* StackGuard::Preempt: ExecutionAccess access
RunPreemptEnter(w) ==
  /\ switchers[w].at = "Preempt"
  /\ ExecutionAccessFree
  /\ RunStep(w, [switchers[w] EXCEPT !.at = "InPreempt"], <<>>)
  /\ UNCHANGED preempt_requested

\* StackGuard::Preempt: the request is set and ExecutionAccess released
RunPreemptLeave(w) ==
  /\ switchers[w].at = "InPreempt"
  /\ RunStep(w, [switchers[w] EXCEPT
                   !.at = "Run",
                   !.requests = IF switchers[w].keep_going_ THEN @
                                ELSE @ + 1],
             <<"StackGuard::Preempt">>)
  /\ preempt_requested' = TRUE

SwitchedNext ==
  \/ \E t \in Threads :
       \/ LockerCtorNested(t)
       \/ LockerCtorBegin(t)
       \/ MutexLock(t)
       \/ ExecutionAccessFree /\ LockerCtorFinish(t)
       \/ LockerDtor(t)
       \/ MutexUnlock(t)
       \/ UnlockerCtor(t)
       \/ UnlockerDtorBegin(t)
       \/ ExecutionAccessFree /\ UnlockerDtorFinish(t)
       \/ workers_started = 0 /\ StartPreemption(t)
       \/ StopPreemptionBegin(t)
       \/ StopPreemptionJoined(t)
  \/ \E w \in DOMAIN switchers :
       \/ RunTest(w)
       \/ RunSleep(w)
       \/ RunPreemptEnter(w)
       \/ RunPreemptLeave(w)

SwitchedSpec == Init /\ [][SwitchedNext]_vars

\* The code's own steps are taken when they can be: the switcher's thread
\* runs, Join returns once the thread has exited, mutex_->Unlock() returns,
\* and a thread waiting for ExecutionAccess gets it, the switcher's thread
\* sleeping between two requests.  Nothing is assumed about when the
\* embedder constructs or destroys a guard.
SwitchedFairness ==
  /\ \A w \in 1..MaxWorkers :
       WF_vars(w \in DOMAIN switchers
                 /\ (RunTest(w) \/ RunSleep(w) \/ RunPreemptEnter(w)
                       \/ RunPreemptLeave(w)))
  /\ \A t \in Threads :
       /\ WF_vars(StopPreemptionJoined(t))
       /\ SF_pc(ExecutionAccessFree /\ PcStep(t, "Locker_Locked", "run"))
       /\ SF_pc(ExecutionAccessFree /\ PcStep(t, "Unlocker_Locked", "run"))
       /\ WF_pc(PcStep(t, "Locker_Unlock", "run"))
       /\ WF_pc(PcStep(t, "Unlocker_Unlock", "run"))

SwitchedFairSpec == SwitchedSpec /\ SwitchedFairness

(***************************************************************************)
(* Archive and restore of one subsystem over one buffer position, for the  *)
(* regexp stack.  round_trip.x is the argument record of the subsystem     *)
(* functions: the cursor, the buffer and the live states.  The run starts  *)
(* from any live state S, cursor and buffer content, archives, lets the    *)
(* running code overwrite the live state, and restores from the position   *)
(* the archive was written to.                                             *)
(***************************************************************************)
Buffers ==
  {[i \in 1..ArchiveSpacePerThread |-> Uninit]} \cup
  {[i \in 1..ArchiveSpacePerThread |-> <<ArchiveOrder[i], v>>] :
     v \in 0..MaxVal}

RoundTripInputs ==
  {[phase |-> "live", S |-> <<"RegExpStack", v>>, from |-> to, after |-> to,
    freed |-> {},
    x |-> [to |-> to, data |-> data,
           live |-> [FreshLive EXCEPT !["RegExpStack"] = <<"RegExpStack", v>>]]] :
     v \in 0..MaxVal, to \in 1..ArchiveSpacePerThread, data \in Buffers}

RoundTripInit ==
  /\ ManagerInit /\ GlobalContextInit /\ OtherInit
  /\ round_trip \in RoundTripInputs

RoundTripStep(r) ==
  /\ round_trip' = r
  /\ UNCHANGED <<last_id_, mutex_, mutex_owner_, lazily_archived_thread_,
                 lazily_archived_thread_state_, states, thread_state_key,
                 thread_id_key, live, active_, is_running, top_thread_id_,
                 terminate_requested, guards, constructed, failed, saved,
                 assignOrder, hist, pc, calls, last, preemptVars,
                 using_one_v8_instance, bindVars, lockerVars, otherVars>>

\* to = RegExpStack::ArchiveStack(to)
RoundTripArchive ==
  /\ round_trip.phase = "live"
  /\ LET Archived(x) ==
           RoundTripStep([round_trip EXCEPT
                            !.phase = "archived", !.x = x, !.after = x.to])
     IN  Archived(RegExpStack_ArchiveStack(round_trip.x))

\* Code running between the archive and the restore leaves the stack in
\* some state v; memory it allocates is not the archived thread's, which
\* is still allocated.
RoundTripRun ==
  /\ round_trip.phase = "archived"
  /\ \E v \in (1..MaxVal) \ {round_trip.S[2]} :
       RoundTripStep([round_trip EXCEPT
                        !.x.live["RegExpStack"] = <<"RegExpStack", v>>])

\* from = RegExpStack::RestoreStack(from), from the position archived to
RoundTripRestore ==
  /\ round_trip.phase = "archived"
  /\ LET Restored(x) ==
           RoundTripStep([round_trip EXCEPT !.phase = "restored", !.x = x])
     IN  Restored(RegExpStack_RestoreStack(
                    [round_trip.x EXCEPT !.to = round_trip.from]))

\* RegExpStackData::ThreadLocal::Free() by the thread that runs between
\* the archive and the restore.
RoundTripFree ==
  /\ round_trip.phase = "archived"
  /\ RoundTripStep([round_trip EXCEPT
                     !.x.live = RegExpStack_Free(round_trip.x.live),
                     !.freed = @ \cup RegExpStack_Freed(round_trip.x.live)])

RoundTripNext ==
  RoundTripArchive \/ RoundTripRun \/ RoundTripFree \/ RoundTripRestore

RoundTripSpec == RoundTripInit /\ [][RoundTripNext]_vars

(***************************************************************************)
(* v8-global-context: resolution and binding of the current context.  A    *)
(* V8Context is its number; v8context is the static one.  in_context[t]    *)
(* is the V8Context constructor or destructor thread t is inside, with the *)
(* object and, for the constructor, its local prev_v8_context; before and  *)
(* one_instance are history: what v8_context() returned to t, and the      *)
(* mode, when the call began.  A                                           *)
(* V8ContextBinder is a record of its members v8context_ and               *)
(* bound_default_, with the same history.                                  *)
(***************************************************************************)
threadManagerVars ==
  <<last_id_, mutex_, mutex_owner_, lazily_archived_thread_,
    lazily_archived_thread_state_, states, thread_state_key, thread_id_key,
    live, active_, is_running, top_thread_id_, terminate_requested, guards,
    constructed, failed, saved, assignOrder, hist, pc, round_trip,
    preemptVars, otherVars>>

\* Faulty variant: v8_context() that consults the thread's slot in
\* single-instance mode too.
v8_context_IgnoresMode(t) ==
  IF context_key[t] = NULL THEN default_context ELSE context_key[t]

\* v8_context() called by thread t
v8_context(t) ==
  IF using_one_v8_instance THEN default_context
  ELSE IF context_key[t] = NULL THEN default_context
  ELSE context_key[t]

\* BindContext(context, bind_default) called by thread t
BindContext(t, context, bind_default) ==
  IF bind_default
  THEN /\ default_context' = context
       /\ UNCHANGED <<context_key, bind_failed>>
  ELSE /\ bind_failed' =
            IF v8_context(t) # context THEN bind_failed
            ELSE bind_failed \cup {"BindContext: v8_context() != context"}
       /\ context_key' = [context_key EXCEPT ![t] = context]
       /\ UNCHANGED default_context

\* A step of thread t in the binding code.
BindStep(t, op, cs) ==
  /\ last' = [op |-> op, t |-> t]
  /\ calls' = cs
  /\ UNCHANGED <<threadManagerVars, lockerVars>>

\* AllowSeveralV8InstancesInProcess::AllowSeveralV8InstancesInProcess
AllowSeveralV8InstancesInProcess(t) ==
  /\ in_context[t] = NoContext
  /\ using_one_v8_instance
  /\ using_one_v8_instance' = FALSE
  /\ BindStep(t, "AllowSeveralV8InstancesInProcess", <<>>)
  /\ UNCHANGED bindVars

Binder(v8context_, bound_default, before) ==
  [v8context_ |-> v8context_, bound_default_ |-> bound_default,
   before |-> before]

\* V8ContextBinder::V8ContextBinder(v8context, bind_default)
BinderCtor(t) ==
  /\ in_context[t] = NoContext
  /\ binders_made < MaxBinders
  /\ binders_made' = binders_made + 1
  /\ \E c \in alive, bind_default \in BOOLEAN :
       /\ binders' = [binders EXCEPT
                        ![t] = Append(@, Binder(c, bind_default, v8_context(t)))]
       /\ BindContext(t, c, bind_default)
       /\ BindStep(t, "V8ContextBinder", <<"BindContext">>)
  /\ UNCHANGED <<using_one_v8_instance, contexts_made, alive, in_context>>

\* V8ContextBinder::~V8ContextBinder of the innermost binder of thread t
BinderDtor(t) ==
  /\ in_context[t] = NoContext
  /\ binders[t] # <<>>
  /\ LET b == binders[t][Len(binders[t])]
     IN  BindContext(t, NULL, b.bound_default_)
  /\ binders' = [binders EXCEPT ![t] = SubSeq(@, 1, Len(@) - 1)]
  /\ BindStep(t, "~V8ContextBinder", <<"BindContext">>)
  /\ UNCHANGED <<using_one_v8_instance, contexts_made, alive, binders_made,
                 in_context>>

\* V8Context::V8Context, reached from V8ContextProvider's constructor, up to
\* the calls of the subsystems' PostConstruct.
ContextCtorBegin(t) ==
  /\ in_context[t] = NoContext
  /\ contexts_made < MaxContexts
  /\ contexts_made' = contexts_made + 1
  /\ in_context' = [in_context EXCEPT
                      ![t] = [at |-> "V8Context", this |-> contexts_made + 1,
                              prev_v8_context |-> v8_context(t),
                              before |-> v8_context(t),
                              one_instance |-> using_one_v8_instance]]
  /\ BindContext(t, contexts_made + 1, using_one_v8_instance)
  /\ BindStep(t, "V8Context:begin", <<"BindContext">>)
  /\ UNCHANGED <<using_one_v8_instance, alive, binders, binders_made>>

\* Faulty variant: the constructor returns without binding
\* prev_v8_context.
ContextCtorFinish_StaysBound(t) ==
  /\ in_context[t].at = "V8Context"
  /\ alive' = alive \cup {in_context[t].this}
  /\ in_context' = [in_context EXCEPT ![t] = NoContext]
  /\ BindStep(t, "V8Context", <<"PostConstruct">>)
  /\ UNCHANGED <<using_one_v8_instance, default_context, context_key,
                 bind_failed, contexts_made, binders, binders_made>>

\* The rest of V8Context::V8Context: the PostConstruct calls and
\* BindContext(prev_v8_context).
ContextCtorFinish(t) ==
  /\ in_context[t].at = "V8Context"
  /\ BindContext(t, in_context[t].prev_v8_context, using_one_v8_instance)
  /\ alive' = alive \cup {in_context[t].this}
  /\ in_context' = [in_context EXCEPT ![t] = NoContext]
  /\ BindStep(t, "V8Context", <<"PostConstruct", "BindContext">>)
  /\ UNCHANGED <<using_one_v8_instance, contexts_made, binders, binders_made>>

\* V8Context::~V8Context of a context made by a V8ContextProvider, reached
\* from the provider's destructor, up to the teardown calls.
ContextDtorBegin(t) ==
  /\ in_context[t] = NoContext
  /\ \E c \in alive \ {v8context} :
       /\ \A u \in Threads :
            IF in_context[u] = NoContext THEN TRUE ELSE in_context[u].this # c
       /\ in_context' = [in_context EXCEPT
                           ![t] = [at |-> "~V8Context", this |-> c,
                                   before |-> v8_context(t)]]
       /\ BindContext(t, c, using_one_v8_instance)
  /\ BindStep(t, "~V8Context:begin", <<"BindContext">>)
  /\ UNCHANGED <<using_one_v8_instance, contexts_made, alive, binders,
                 binders_made>>

\* The rest of V8Context::~V8Context: the teardown, the deletes and
\* BindContext(NULL).
ContextDtorFinish(t) ==
  /\ in_context[t].at = "~V8Context"
  /\ BindContext(t, NULL, using_one_v8_instance)
  /\ alive' = alive \ {in_context[t].this}
  /\ in_context' = [in_context EXCEPT ![t] = NoContext]
  /\ BindStep(t, "~V8Context", <<"FreeThreadResources", "PreDestroy",
                                 "BindContext">>)
  /\ UNCHANGED <<using_one_v8_instance, contexts_made, binders, binders_made>>

\* Binders: the contexts have been made, one after the other in
\* single-instance mode, before the threads bind them.
BinderInit ==
  /\ ManagerInit
  /\ round_trip = NoRoundTrip
  /\ OtherInit
  /\ using_one_v8_instance = TRUE
  /\ default_context = v8context
  /\ context_key = [t \in Threads |-> NULL]
  /\ contexts_made = MaxContexts
  /\ alive = 1..MaxContexts
  /\ binders = [t \in Threads |-> <<>>]
  /\ binders_made = 0
  /\ in_context = [t \in Threads |-> NoContext]
  /\ bind_failed = {}
  /\ resource_lock = INVALID
  /\ lockers = [t \in Threads |-> <<>>]
  /\ lockers_made = 0
  /\ lock_calls = 0
  /\ unlock_calls = 0

BinderNext ==
  \E t \in Threads :
    \/ AllowSeveralV8InstancesInProcess(t)
    \/ BinderCtor(t)
    \/ BinderDtor(t)

BinderSpec == BinderInit /\ [][BinderNext]_vars

\* Construction and destruction of contexts.
ContextNext ==
  \E t \in Threads :
    \/ AllowSeveralV8InstancesInProcess(t)
    \/ ContextCtorBegin(t)
    \/ ContextCtorFinish(t)
    \/ ContextDtorBegin(t)
    \/ ContextDtorFinish(t)

ContextSpec == Init /\ [][ContextNext]_vars

(***************************************************************************)
(* V8ResourceLocker<LockType> over one lock.  A locker is the record of    *)
(* its member locked_; resource_lock is the thread inside lock_, and       *)
(* lock_calls and unlock_calls count the calls of lock_->Lock() and        *)
(* lock_->Unlock().  Lock() returns when the lock is free.                 *)
(***************************************************************************)
ResourceStep(t, op, cs) ==
  /\ last' = [op |-> op, t |-> t]
  /\ calls' = cs
  /\ UNCHANGED <<threadManagerVars, using_one_v8_instance, bindVars>>

\* V8ResourceLocker::V8ResourceLocker(lock)
ResourceLockerCtor(t) ==
  /\ lockers_made < MaxLockers
  /\ lockers_made' = lockers_made + 1
  /\ IF ~using_one_v8_instance
     THEN /\ resource_lock = INVALID
          /\ resource_lock' = t
          /\ lock_calls' = lock_calls + 1
          /\ lockers' = [lockers EXCEPT ![t] = Append(@, [locked_ |-> TRUE])]
          /\ ResourceStep(t, "V8ResourceLocker", <<"Lock">>)
     ELSE /\ lockers' = [lockers EXCEPT ![t] = Append(@, [locked_ |-> FALSE])]
          /\ ResourceStep(t, "V8ResourceLocker", <<>>)
          /\ UNCHANGED <<resource_lock, lock_calls>>
  /\ UNCHANGED unlock_calls

\* Faulty variant: the destructor tests the mode flag instead of locked_.
ResourceLockerDtor_TestsMode(t) ==
  /\ lockers[t] # <<>>
  /\ IF ~using_one_v8_instance
     THEN /\ resource_lock' = INVALID
          /\ unlock_calls' = unlock_calls + 1
          /\ ResourceStep(t, "~V8ResourceLocker", <<"Unlock">>)
     ELSE /\ ResourceStep(t, "~V8ResourceLocker", <<>>)
          /\ UNCHANGED <<resource_lock, unlock_calls>>
  /\ lockers' = [lockers EXCEPT ![t] = SubSeq(@, 1, Len(@) - 1)]
  /\ UNCHANGED <<lockers_made, lock_calls>>

\* V8ResourceLocker::~V8ResourceLocker of the innermost locker of thread t
ResourceLockerDtor(t) ==
  /\ lockers[t] # <<>>
  /\ IF lockers[t][Len(lockers[t])].locked_
     THEN /\ resource_lock' = INVALID
          /\ unlock_calls' = unlock_calls + 1
          /\ ResourceStep(t, "~V8ResourceLocker", <<"Unlock">>)
     ELSE /\ ResourceStep(t, "~V8ResourceLocker", <<>>)
          /\ UNCHANGED <<resource_lock, unlock_calls>>
  /\ lockers' = [lockers EXCEPT ![t] = SubSeq(@, 1, Len(@) - 1)]
  /\ UNCHANGED <<lockers_made, lock_calls>>

ResourceNext ==
  \E t \in Threads :
    \/ AllowSeveralV8InstancesInProcess(t)
    \/ ResourceLockerCtor(t)
    \/ ResourceLockerDtor(t)

ResourceSpec == Init /\ [][ResourceNext]_vars

(***************************************************************************)
(* Properties                                                              *)
(***************************************************************************)
Blocked(t) == pc[t] \in {"Locker_Lock", "Unlocker_Lock"}

\* The innermost guard of t is a Locker whose constructor has returned.
InLocker(t) ==
  pc[t] = "run" /\ guards[t] # <<>> /\ Top(t).kind = "Locker"

\* t is in an Unlocker whose constructor has returned.
InUnlocker(t) ==
  pc[t] = "run" /\ guards[t] # <<>> /\ Top(t).kind = "Unlocker"

\* In this step t enters and completes Locker::Locker with the lock held.
NestedCtor(t) ==
  /\ pc[t] = "run"
  /\ mutex_owner_ = t
  /\ Len(guards'[t]) = Len(guards[t]) + 1
  /\ guards'[t][Len(guards'[t])].kind = "Locker"

\* In this step t runs Locker::~Locker on its innermost guard.
DestroysLocker(t) ==
  /\ InLocker(t)
  /\ Len(guards'[t]) = Len(guards[t]) - 1

InList(n, anchor) == n \in SeqToSet(ListOf(states, anchor))

\* C1: at every instant at most one thread has IsLockedByCurrentThread()
\* true, and a thread for which it is true holds the mutex.
C1_MutualExclusion ==
  /\ Cardinality({t \in Threads : IsLockedByCurrentThread(t, Data)}) <= 1
  /\ \A t \in Threads : IsLockedByCurrentThread(t, Data) => mutex_ = t

\* One thread reports the lock as its own while another is blocked in Lock.
C1_Witness ==
  \E t, u \in Threads :
    t # u /\ IsLockedByCurrentThread(t, Data) /\ Blocked(u)

\* C2: when RestoreThread has brought a thread back in (at the end of
\* ~Unlocker, and at the end of a Locker constructed inside an Unlocker),
\* the live state of every subsystem is the one the thread had when it
\* last stepped out, whatever other threads did in between.
C2_StatePreserved ==
  \A t \in Threads :
    /\ (last.t = t /\ last.op = "~Unlocker")
         => (saved[t].set /\ live = saved[t].live)
    /\ (last.t = t /\ last.op = "Locker" /\ ~Top(t).top_level_)
         => (saved[t].set /\ live = saved[t].live)

\* ~Unlocker has restored work-produced state that another thread, which
\* took the lock meanwhile, had caused to be committed.
C2_Witness ==
  \E t \in Threads :
    /\ last.t = t /\ last.op = "~Unlocker"
    /\ hist[t].phase = "restored" /\ hist[t].other_locked
    /\ SubsystemCalled(calls)
    /\ \A s \in Subsystems : saved[t].live[s][2] > 0

\* C3: a thread whose innermost guard is a constructed Locker (on either
\* constructor path) holds the global lock and has a thread id >= 1.
C3_LockerPostcondition ==
  \A t \in Threads :
    InLocker(t) =>
      /\ IsLockedByCurrentThread(t, Data)
      /\ mutex_ = t
      /\ HasId(t, Data)
      /\ CurrentId(t, Data) >= 1

\* A Locker constructor has just returned after acquiring the lock, to the
\* second thread to get an id.
C3_Witness ==
  \E t \in Threads :
    /\ last.t = t /\ last.op = "Locker" /\ InLocker(t)
    /\ Top(t).has_lock_ /\ CurrentId(t, Data) = 2

\* C4: a thread blocked in Locker::Locker stays blocked while another
\* thread owns the lock; once every other thread is outside the lock the
\* blocked constructor completes with its thread holding the lock, unless
\* another contender gets the mutex first.
C4_BlocksWhileHeld ==
  \A b \in Threads :
    (pc[b] = "Locker_Lock" /\ mutex_ # INVALID) => pc'[b] = "Locker_Lock"

OutsideLock(a) ==
  pc[a] \in {"run", "Locker_Lock", "Unlocker_Lock"} /\ mutex_owner_ # a

C4_HandOver ==
  /\ [][C4_BlocksWhileHeld]_vars
  /\ \A b \in Threads :
       (pc[b] = "Locker_Lock" /\ \A a \in Threads \ {b} : OutsideLock(a))
         ~> \/ (InLocker(b) /\ IsLockedByCurrentThread(b, Data))
            \/ \E c \in Threads \ {b} : mutex_ = c

\* B is blocked in Locker::Locker while A owns the lock.
C4_Witness ==
  \E a, b \in Threads :
    a # b /\ pc[b] = "Locker_Lock" /\ IsLockedByCurrentThread(a, Data)
          /\ InLocker(a)

\* C5: the k-th thread to be assigned an id has id k; ids are distinct,
\* never 0, and a thread is assigned an id at most once; last_id_ counts
\* the assignments.
C5_ThreadIds ==
  /\ last_id_ = Len(assignOrder)
  /\ \A i \in 1..Len(assignOrder) : thread_id_key[assignOrder[i]] = i
  /\ \A i, j \in 1..Len(assignOrder) :
       assignOrder[i] = assignOrder[j] => i = j
  /\ \A t \in Threads : HasId(t, Data) => t \in SeqToSet(assignOrder)

\* Every thread has an id and some thread has constructed a second Locker.
C5_Witness ==
  /\ Len(assignOrder) = NumThreads
  /\ \E t \in Threads : last.t = t /\ last.op = "Locker"
                         /\ ~InCalls("AssignId", calls)

\* The guard t has on top after the step.
NewTop(t) == guards'[t][Len(guards'[t])]

\* C6: destroying a Locker that acquired the lock and is top-level calls
\* FreeThreadResources and not ArchiveThread, leaves every ThreadState and
\* both lists as they were, leaves the thread unarchived and the lazy slot
\* empty, and clears the owner record; the mutex is released by the
\* Unlock that follows, with the owner record still invalid.
C6_TopLevelRelease ==
  [][\A t \in Threads :
       /\ (DestroysLocker(t) /\ Top(t).has_lock_ /\ Top(t).top_level_) =>
            /\ InCalls("FreeThreadResources", calls')
            /\ ~InCalls("ArchiveThread", calls')
            /\ states' = states
            /\ thread_state_key'[t] = NULL
            /\ lazily_archived_thread_' = INVALID
            /\ lazily_archived_thread_state_' = NULL
            /\ mutex_owner_' = INVALID
            /\ pc'[t] = "Locker_Unlock"
       /\ (pc[t] = "Locker_Unlock" /\ pc'[t] # "Locker_Unlock") =>
            /\ mutex_' = INVALID
            /\ mutex_owner_' = INVALID]_vars

\* A top-level Locker has just been destroyed after its thread did work.
C6_Witness ==
  /\ last.op = "~Locker"
  /\ InCalls("FreeThreadResources", calls)
  /\ pc[last.t] = "Locker_Unlock"
  /\ last_id_ >= 1

\* C7 as stated: a Locker constructed by a thread that already holds the
\* lock is non-top-level, and destroying it calls ArchiveThread and not
\* FreeThreadResources.
C7_NestedIsNonTopLevel ==
  [][\A t \in Threads :
       /\ NestedCtor(t) => ~NewTop(t).top_level_
       /\ (DestroysLocker(t) /\ Top(t).entered_locked) =>
            /\ InCalls("ArchiveThread", calls')
            /\ ~InCalls("FreeThreadResources", calls')]_vars

\* C7 as the code has it: a Locker constructed by a thread that already
\* holds the lock keeps top_level_ true and has_lock_ false, and destroying
\* it calls neither ArchiveThread nor FreeThreadResources.  A Locker is
\* non-top-level exactly when it acquired the lock and RestoreThread found
\* its thread archived; destroying that one calls ArchiveThread, not
\* FreeThreadResources, and leaves the thread as the lazy candidate.
C7_NonTopLevelIsRestored ==
  [][\A t \in Threads :
       /\ NestedCtor(t) => (NewTop(t).top_level_ /\ ~NewTop(t).has_lock_)
       /\ (DestroysLocker(t) /\ Top(t).entered_locked) =>
            /\ ~InCalls("ArchiveThread", calls')
            /\ ~InCalls("FreeThreadResources", calls')
       /\ (pc[t] = "Locker_Locked" /\ pc'[t] = "run") =>
            /\ NewTop(t).has_lock_
            /\ NewTop(t).top_level_ <=> ~IsArchived(t, Data)
       /\ (DestroysLocker(t) /\ ~Top(t).top_level_) =>
            /\ Top(t).has_lock_
            /\ InCalls("ArchiveThread", calls')
            /\ ~InCalls("FreeThreadResources", calls')
            /\ lazily_archived_thread_' = t]_vars

\* A thread that holds the lock has just constructed a second Locker.
C7_Witness ==
  \E t \in Threads :
    /\ last.t = t /\ last.op = "Locker" /\ InLocker(t)
    /\ Len(guards[t]) >= 2
    /\ Top(t).entered_locked /\ Top(t).top_level_ /\ ~Top(t).has_lock_

\* What a nested Locker's constructor and destructor leave alone.
NestedFrame(t) ==
  /\ mutex_ = t /\ mutex_' = t
  /\ mutex_owner_ = t /\ mutex_owner_' = t
  /\ states' = states
  /\ lazily_archived_thread_' = lazily_archived_thread_
  /\ lazily_archived_thread_state_' = lazily_archived_thread_state_
  /\ thread_state_key' = thread_state_key
  /\ live' = live
  /\ pc'[t] = "run"

\* C8: constructing a Locker on a thread that already holds the lock does
\* not wait for or take the mutex and calls neither Lock, RestoreThread nor
\* the stack guard's ClearThread/InitThread; destroying that Locker does
\* not call Unlock; either step leaves the mutex, the owner record, the
\* ThreadStates and their lists, and the lazy slot unchanged.
C8_NestedLeavesLockAlone ==
  [][\A t \in Threads :
       /\ NestedCtor(t) =>
            /\ NestedFrame(t)
            /\ ~InCalls("Lock", calls')
            /\ ~InCalls("RestoreThread", calls')
            /\ ~InCalls("StackGuard::ClearThread", calls')
            /\ ~InCalls("StackGuard::InitThread", calls')
       /\ (DestroysLocker(t) /\ Top(t).entered_locked) =>
            /\ NestedFrame(t)
            /\ ~InCalls("Unlock", calls')]_vars

\* A nested Locker has been destroyed and its thread is still inside the
\* Locker that acquired the lock.
C8_Witness ==
  \E t \in Threads :
    /\ last.t = t /\ last.op = "~Locker"
    /\ pc[t] = "run" /\ calls = <<>>
    /\ InLocker(t) /\ Top(t).has_lock_
    /\ IsLockedByCurrentThread(t, Data)

\* The constructor of t's Unlocker has returned and nothing has run since.
UnlockerReturned(t) ==
  last.t = t /\ last.op = "Mutex::Unlock" /\ InUnlocker(t)

\* The buffer ArchiveEach writes for the live state lv.
ArchivedImage(lv) == [i \in 1..Len(ArchiveOrder) |-> lv[ArchiveOrder[i]]]

\* C9 as stated: when an Unlocker constructor returns, the thread's
\* subsystem state is in the buffer of its ThreadState, that state is in
\* the in-use list, and the lock has been released.
C9_UnlockerArchivesEagerly ==
  \A t \in Threads :
    UnlockerReturned(t) =>
      /\ IsArchived(t, Data)
      /\ InList(thread_state_key[t], in_use_anchor_)
      /\ states[thread_state_key[t]].data_ = ArchivedImage(saved[t].live)
      /\ mutex_ = INVALID /\ mutex_owner_ = INVALID

\* C9 as the code has it: Unlocker::Unlocker calls ArchiveThread, which
\* only reserves a ThreadState.  When the constructor returns the thread
\* is the lazily archived thread, its ThreadState carries its id and is
\* in neither list, no subsystem Archive has run, the buffer is as it was
\* and the live state is still in place; the lock has been released.
C9_UnlockerArchivesLazily ==
  \A t \in Threads :
    /\ (last.t = t /\ last.op = "Unlocker") =>
         /\ ~SubsystemCalled(calls)
         /\ ~InCalls("EagerlyArchiveThread", calls)
         /\ mutex_owner_ = INVALID
    /\ UnlockerReturned(t) =>
         /\ IsArchived(t, Data)
         /\ lazily_archived_thread_ = t
         /\ lazily_archived_thread_state_ = thread_state_key[t]
         /\ states[thread_state_key[t]].id_ = CurrentId(t, Data)
         /\ ~InList(thread_state_key[t], in_use_anchor_)
         /\ ~InList(thread_state_key[t], free_anchor_)
         /\ states[thread_state_key[t]].data_ = hist[t].data_
         /\ live = saved[t].live
         /\ mutex_ = INVALID /\ mutex_owner_ = INVALID

\* An Unlocker constructor has returned to a thread whose live state was
\* produced by work.
C9_Witness ==
  \E t \in Threads :
    /\ UnlockerReturned(t)
    /\ \A s \in Subsystems : live[s][2] > 0

\* What RestoreThread leaves when it elides the archive of t.
Elided(t) ==
  /\ ~hist[t].subsystem_calls
  /\ hist[t].id_ = kInvalidId
  /\ states[hist[t].state].id_ = kInvalidId
  /\ states[hist[t].state].data_ = hist[t].data_
  /\ states[free_anchor_].next_ = hist[t].state
  /\ ~IsArchived(t, Data)
  /\ lazily_archived_thread_ = INVALID
  /\ lazily_archived_thread_state_ = NULL

\* C10 as stated: if T calls ArchiveThread and later RestoreThread and no
\* other thread calls ArchiveThread in between, no subsystem Archive or
\* Restore runs in between and the same ThreadState is back in the free
\* list with its id invalid and its buffer untouched.
C10_ElisionUnlessOtherArchives ==
  \A t \in Threads :
    (hist[t].phase = "restored" /\ ~hist[t].other_archived) => Elided(t)

\* C10 as the code has it: the archive is elided when no other thread
\* acquires the lock between T's ArchiveThread and T's RestoreThread; a
\* thread that does acquire it commits T's archive in its own
\* RestoreThread, whether it ever calls ArchiveThread or not.
C10_ElisionUnlessOtherLocks ==
  \A t \in Threads :
    /\ (hist[t].phase = "restored" /\ ~hist[t].other_locked) => Elided(t)
    /\ (hist[t].phase = "restored" /\ hist[t].other_locked) =>
         hist[t].subsystem_calls

\* RestoreThread has elided an archive whose ThreadState held an image
\* committed earlier.
C10_Witness ==
  \E t \in Threads :
    /\ hist[t].phase = "restored" /\ ~hist[t].other_locked
    /\ last.t = t /\ last.op = "~Unlocker"
    /\ hist[t].data_[1] # Uninit
    /\ \A s \in Subsystems : live[s][2] > 0

\* The first position of name in the call list cs, 0 when it is absent.
Pos(cs, name) ==
  IF InCalls(name, cs)
  THEN CHOOSE i \in 1..Len(cs) :
         cs[i] = name /\ \A j \in 1..(i - 1) : cs[j] # name
  ELSE 0

\* The calls by which a thread sets up or reads back its own live state,
\* or archives itself.
OwnStateCall(c) ==
  \/ c \in {"StackGuard::InitThread", "StackGuard::ClearThread",
            "ArchiveThread"}
  \/ \E s \in Subsystems : c = "Restore:" \o s

\* In this step thread u, which is not the lazily archived thread, runs
\* RestoreThread while an archive is pending.
RestoresOverPending(u) ==
  /\ last'.t = u
  /\ InCalls("RestoreThread", calls')
  /\ IsValid(lazily_archived_thread_)
  /\ ~IsSelf(lazily_archived_thread_, u)

\* C11: when thread U acquires the lock while another thread T is the
\* lazy-archive candidate, the handler in which U takes the lock calls
\* EagerlyArchiveThread, which runs every subsystem's Archive in order
\* over T's buffer, links T's ThreadState into the in-use list and clears
\* the lazy slot, before U initialises or restores its own state and
\* before any ArchiveThread by U; no thread owns the lock while another
\* thread's archive is pending.
C11_ForcedEagerArchive ==
  [][/\ \A u \in Threads :
          RestoresOverPending(u) =>
            /\ Pos(calls', "EagerlyArchiveThread") > 0
            /\ \A i \in 1..Len(ArchiveOrder) :
                 /\ Pos(calls', "EagerlyArchiveThread") + i <= Len(calls')
                 /\ calls'[Pos(calls', "EagerlyArchiveThread") + i]
                      = "Archive:" \o ArchiveOrder[i]
            /\ \A j \in 1..Len(calls') :
                 OwnStateCall(calls'[j]) =>
                   j > Pos(calls', "EagerlyArchiveThread") + Len(ArchiveOrder)
            /\ lazily_archived_thread_state_
                 \in SeqToSet(ListOf(states', in_use_anchor_))
            /\ states'[lazily_archived_thread_state_].data_
                 = [i \in 1..Len(ArchiveOrder) |-> live[ArchiveOrder[i]]]
            /\ states'[lazily_archived_thread_state_].id_
                 = thread_id_key[lazily_archived_thread_]
            /\ lazily_archived_thread_' = INVALID
            /\ lazily_archived_thread_state_' = NULL
     /\ \A u \in Threads :
          (IsLockedByCurrentThread(u, Data) /\ pc[u] = "run") =>
            ~IsValid(lazily_archived_thread_)
     /\ "ArchiveThread: no lazily archived thread" \notin failed']_vars

\* U's Locker constructor has just committed the archive of T, who had
\* stepped out with state produced by work.
C11_Witness ==
  \E t, u \in Threads :
    /\ t # u
    /\ last.t = u /\ last.op = "Locker"
    /\ InCalls("EagerlyArchiveThread", calls)
    /\ IsArchived(t, Data)
    /\ InList(thread_state_key[t], in_use_anchor_)
    /\ \A s \in Subsystems : saved[t].live[s][2] > 0

\* In this step thread t calls the named ThreadManager function.
Calls(t, name) == last'.t = t /\ InCalls(name, calls')

\* C12: ArchiveThread allocates a ThreadState, with a fresh buffer, only
\* when the free list is empty; otherwise it takes the head of the free
\* list and allocates nothing, and the buffer is the one that state had.
\* RestoreThread puts the state it frees at the head of the free list, so
\* the state taken is the one freed last.
C12_FreeListReuse ==
  [][\A t \in Threads :
       /\ Calls(t, "ArchiveThread") =>
            IF states[free_anchor_].next_ = free_anchor_
            THEN /\ thread_state_key'[t] \notin DOMAIN states
                 /\ DOMAIN states' = DOMAIN states \cup {thread_state_key'[t]}
                 /\ states'[thread_state_key'[t]].data_
                      = [i \in 1..ArchiveSpacePerThread |-> Uninit]
            ELSE /\ thread_state_key'[t] = states[free_anchor_].next_
                 /\ DOMAIN states' = DOMAIN states
                 /\ states'[thread_state_key'[t]].data_
                      = states[thread_state_key'[t]].data_
       /\ (Calls(t, "RestoreThread") /\ IsArchived(t, Data)) =>
            /\ states'[free_anchor_].next_ = thread_state_key[t]
            /\ DOMAIN states' = DOMAIN states]_vars

\* A thread has archived into the one ThreadState ever allocated, which
\* still holds the image another thread's RestoreThread committed there.
C12_Witness ==
  \E u \in Threads :
    /\ last.t = u /\ InCalls("ArchiveThread", calls)
    /\ DOMAIN states = {free_anchor_, in_use_anchor_, 3}
    /\ thread_state_key[u] = 3
    /\ states[3].data_[1] # Uninit
    /\ Len(assignOrder) = 2

Anchors == {free_anchor_, in_use_anchor_}

\* The list through anchor is circular and doubly linked: the walk along
\* next_ comes back to the anchor without visiting a node twice, and
\* x.next.previous = x = x.previous.next for the anchor and every member.
WellFormed(anchor) ==
  LET members == ListOf(states, anchor)
      last_ == IF members = <<>> THEN anchor ELSE members[Len(members)]
  IN  /\ states[last_].next_ = anchor
      /\ \A i, j \in 1..Len(members) : members[i] = members[j] => i = j
      /\ \A n \in SeqToSet(members) \cup {anchor} :
           /\ states[n].next_ \in DOMAIN states
           /\ states[n].previous_ \in DOMAIN states
           /\ states[states[n].next_].previous_ = n
           /\ states[states[n].previous_].next_ = n

\* The anchors are never handed out as entries.
AnchorsNeverEntries ==
  /\ \A t \in Threads : thread_state_key[t] \notin Anchors
  /\ lazily_archived_thread_state_ \notin Anchors
  /\ FirstInUse(states) \notin Anchors
  /\ \A n \in SeqToSet(ListOf(states, in_use_anchor_)) :
       Next_(states, n) \notin Anchors
  /\ \A a \in Anchors : ~InList(a, free_anchor_) /\ ~InList(a, in_use_anchor_)
  /\ GetFree(states).state \notin Anchors

\* C13 as stated: every allocated ThreadState other than the anchors is
\* in exactly one of the free list and the in-use list, both lists are
\* well formed, and the anchors are never entries.
C13_ExactlyOneList ==
  /\ \A n \in DOMAIN states \ Anchors :
       InList(n, free_anchor_) # InList(n, in_use_anchor_)
  /\ WellFormed(free_anchor_) /\ WellFormed(in_use_anchor_)
  /\ AnchorsNeverEntries

\* C13 as the code has it: the ThreadState reserved for the lazily
\* archived thread is in neither list; every other allocated ThreadState
\* (anchors apart) is in exactly one of the two; both lists are well
\* formed and the anchors are never entries.
C13_OneListUnlessLazy ==
  /\ \A n \in DOMAIN states \ Anchors :
       IF n = lazily_archived_thread_state_
       THEN ~InList(n, free_anchor_) /\ ~InList(n, in_use_anchor_)
       ELSE InList(n, free_anchor_) # InList(n, in_use_anchor_)
  /\ IsValid(lazily_archived_thread_) <=>
       lazily_archived_thread_state_ \in DOMAIN states \ Anchors
  /\ WellFormed(free_anchor_) /\ WellFormed(in_use_anchor_)
  /\ AnchorsNeverEntries

\* One ThreadState is in the in-use list, committed for a parked thread,
\* and a second one is reserved for the lazily archived thread.
C13_Witness ==
  /\ Len(ListOf(states, in_use_anchor_)) = 1
  /\ IsValid(lazily_archived_thread_)
  /\ lazily_archived_thread_state_ \notin SeqToSet(ListOf(states, in_use_anchor_))
  /\ Cardinality(DOMAIN states) = 4

\* Thread t is archived and its archive has not been committed.
Uncommitted(t) ==
  IsArchived(t, Data) /\ ~InList(thread_state_key[t], in_use_anchor_)

\* C14: at most one thread is archived but uncommitted.  A thread whose
\* thread-state key is set is either the lazily archived thread, with
\* lazily_archived_thread_state_ its ThreadState, or its ThreadState is in
\* the in-use list and carries its id; no ThreadState serves two threads
\* and no two in-use ThreadStates carry the same id.
C14_SinglePendingArchive ==
  /\ Cardinality({t \in Threads : Uncommitted(t)}) <= 1
  /\ \A t \in Threads :
       IsArchived(t, Data) =>
         \/ /\ IsSelf(lazily_archived_thread_, t)
            /\ lazily_archived_thread_state_ = thread_state_key[t]
            /\ Uncommitted(t)
         \/ /\ ~IsSelf(lazily_archived_thread_, t)
            /\ InList(thread_state_key[t], in_use_anchor_)
            /\ states[thread_state_key[t]].id_ = CurrentId(t, Data)
            /\ HasId(t, Data)
  /\ IsValid(lazily_archived_thread_) =>
       thread_state_key[lazily_archived_thread_]
         = lazily_archived_thread_state_
  /\ \A t, u \in Threads :
       (IsArchived(t, Data) /\ thread_state_key[t] = thread_state_key[u])
         => t = u
  /\ \A n, m \in SeqToSet(ListOf(states, in_use_anchor_)) :
       states[n].id_ = states[m].id_ => n = m

\* One thread's archive is committed in the in-use list while another
\* thread is the lazily archived one.
C14_Witness ==
  \E t, u \in Threads :
    /\ t # u
    /\ IsArchived(t, Data) /\ InList(thread_state_key[t], in_use_anchor_)
    /\ Uncommitted(u) /\ IsSelf(lazily_archived_thread_, u)
    /\ mutex_ = INVALID

\* How often name occurs in the call list cs.
Count(cs, name) == Cardinality({i \in 1..Len(cs) : cs[i] = name})

\* The in-use ThreadStates that carry the id thread_id.
InUseWithId(thread_id) ==
  {n \in SeqToSet(ListOf(states, in_use_anchor_)) : states[n].id_ = thread_id}

\* In this step thread t restores from its committed ThreadState.
RestoresCommitted(t) ==
  /\ Calls(t, "RestoreThread")
  /\ IsArchived(t, Data)
  /\ InList(thread_state_key[t], in_use_anchor_)

\* C15: TerminateExecution(id) by the thread that holds the lock flags
\* exactly the in-use ThreadStates stamped with id, the ThreadState of a
\* parked thread with that id among them, and changes nothing else; with
\* no such ThreadState it changes nothing.  A flag stays on its in-use
\* ThreadState until the thread parked on it runs RestoreThread, which
\* then calls StackGuard::TerminateExecution once, for that thread, and
\* clears the flag; no other step requests termination, and a ThreadState
\* that is not in use is never flagged.
C15_DeferredTermination ==
  [][/\ \A u \in Threads : \A thread_id \in 0..NumThreads :
          Calls(u, "TerminateExecution:" \o ToString(thread_id)) =>
            /\ IsLockedByCurrentThread(u, Data)
            /\ \A t \in Threads \ {u} :
                 (IsArchived(t, Data) /\ CurrentId(t, Data) = thread_id
                    /\ HasId(t, Data))
                   => /\ thread_state_key[t] \in InUseWithId(thread_id)
                      /\ states'[thread_state_key[t]].terminate_on_restore_
            /\ states' =
                 [n \in DOMAIN states |->
                    IF n \in InUseWithId(thread_id)
                    THEN [states[n] EXCEPT !.terminate_on_restore_ = TRUE]
                    ELSE states[n]]
            /\ InUseWithId(thread_id) = {} => states' = states
            /\ UNCHANGED <<terminate_requested, thread_state_key,
                           thread_id_key, live, last_id_, mutex_,
                           mutex_owner_, lazily_archived_thread_,
                           lazily_archived_thread_state_>>
     /\ \A t \in Threads :
          RestoresCommitted(t) =>
            IF states[thread_state_key[t]].terminate_on_restore_
            THEN /\ Count(calls', "StackGuard::TerminateExecution") = 1
                 /\ terminate_requested' = terminate_requested \cup {t}
                 /\ ~states'[thread_state_key[t]].terminate_on_restore_
            ELSE /\ Count(calls', "StackGuard::TerminateExecution") = 0
                 /\ terminate_requested' = terminate_requested
     /\ \A n \in DOMAIN states :
          states[n].terminate_on_restore_ =>
            /\ InList(n, in_use_anchor_)
            /\ \/ /\ states'[n].terminate_on_restore_
                  /\ states'[n].id_ = states[n].id_
                  /\ n \in SeqToSet(ListOf(states', in_use_anchor_))
               \/ \E t \in Threads :
                    RestoresCommitted(t) /\ thread_state_key[t] = n
     /\ (terminate_requested' # terminate_requested
           \/ InCalls("StackGuard::TerminateExecution", calls')) =>
          \E t \in Threads :
            /\ RestoresCommitted(t)
            /\ states[thread_state_key[t]].terminate_on_restore_
            /\ states[thread_state_key[t]].id_ = CurrentId(t, Data)]_vars

\* A thread has come back from its Unlocker and found the termination
\* another thread requested for it while it was parked.
C15_Witness ==
  \E t \in Threads :
    /\ last.t = t /\ last.op = "~Unlocker"
    /\ InCalls("StackGuard::TerminateExecution", calls)
    /\ terminate_requested = {t}
    /\ \A n \in DOMAIN states : ~states[n].terminate_on_restore_

\* Switchers whose thread has not exited.
RunningSwitchers == {w \in DOMAIN switchers : switchers[w].at # "exited"}

\* Switchers for which StopPreemption has returned.
StoppedSwitchers == {w \in DOMAIN switchers : switchers[w].deleted}

\* C16: StopPreemption is final.  StopPreemption returns only when the thread
\* of the switcher it stops has exited; from then on that switcher's thread
\* takes no step, and every StackGuard::Preempt call is made by the thread of
\* a switcher that has not been stopped.
C16_StopPreemptionIsFinal ==
  [][ /\ \A t \in Threads :
           pc[t] = "StopPreemption_Join" /\ pc'[t] = "run"
             => /\ switchers[singleton_].at = "exited"
                /\ switchers'[singleton_].deleted
                /\ singleton_' = NULL
      /\ \A w \in StoppedSwitchers :
           /\ switchers[w].at = "exited"
           /\ switchers'[w] = switchers[w]
      /\ (last'.op = "ContextSwitcher::Run" /\ InCalls("StackGuard::Preempt", calls'))
           => \E w \in DOMAIN switchers \ StoppedSwitchers :
                /\ switchers[w].at = "Preempt"
                /\ switchers'[w].at = "Run"
                /\ w = singleton_
    ]_vars

\* StartPreemption immediately followed by StopPreemption has returned: the
\* switcher was stopped before it issued any preemption request.
C16_Witness ==
  /\ last.op = "StopPreemption"
  /\ singleton_ = NULL
  /\ Len(switchers) = 1
  /\ switchers[1].deleted
  /\ switchers[1].at = "exited"
  /\ ~preempt_requested

\* C17: single preemption worker.  At most one switcher thread is alive, and
\* it is the one singleton_ names; StartPreemption with a switcher installed
\* changes only that switcher's sleep_ms_, StartPreemption with none
\* installed starts a new one, and StopPreemption with none installed
\* changes nothing.
C17_SingleWorker ==
  [][ /\ Cardinality(RunningSwitchers') <= 1
      /\ RunningSwitchers' \subseteq {singleton_'}
      /\ (last'.op = "StartPreemption" /\ singleton_ # NULL)
           => /\ singleton_' = singleton_
              /\ workers_started' = workers_started
              /\ \E every_n_ms \in Intervals :
                   switchers' = [switchers EXCEPT
                                   ![singleton_].sleep_ms_ = every_n_ms]
      /\ (last'.op = "StartPreemption" /\ singleton_ = NULL)
           => /\ Len(switchers') = Len(switchers) + 1
              /\ singleton_' = Len(switchers')
              /\ singleton_' \notin DOMAIN switchers
              /\ switchers'[singleton_'].at = "Run"
              /\ switchers'[singleton_'].keep_going_
              /\ ~switchers'[singleton_'].deleted
              /\ \A w \in DOMAIN switchers : switchers'[w] = switchers[w]
      /\ (last'.op = "StopPreemption:begin" /\ singleton_ = NULL)
           => UNCHANGED <<preemptVars, pc>>
    ]_vars

\* A fresh switcher runs after an earlier one was stopped, and its interval
\* has been updated by a further StartPreemption.
C17_Witness ==
  /\ last.op = "StartPreemption"
  /\ Len(switchers) = 2
  /\ singleton_ = 2
  /\ switchers[1].deleted
  /\ switchers[2].at = "Preempt"
  /\ switchers[2].sleep_ms_ = 20
  /\ calls = <<"StartPreemption:20">>
  /\ preempt_requested

\* The structures the lock protects: the free and in-use lists (the links
\* and contents of the ThreadStates), the id counter, the lock-owner record
\* and the lazy-archive slot.
sharedStructures ==
  <<states, last_id_, mutex_owner_, lazily_archived_thread_,
    lazily_archived_thread_state_>>

\* The threads inside guard code that runs between mutex_->Lock() and
\* mutex_->Unlock().
InLockedCode ==
  {t \in Threads : pc[t] \in {"Locker_Locked", "Unlocker_Locked",
                              "Locker_Unlock", "Unlocker_Unlock"}}

\* C18: lock as single writer.  Every step that changes the lists, the id
\* counter, the lock-owner record or the lazy-archive slot is a step of the
\* thread that holds the mutex before and after it, and at most one thread,
\* the holder, is inside the code between mutex_->Lock() and
\* mutex_->Unlock().
C18_LockIsSingleWriter ==
  [][ /\ sharedStructures' # sharedStructures
           => /\ last'.t \in Threads
              /\ mutex_ = last'.t
              /\ mutex_' = last'.t
      /\ InLockedCode' \subseteq {mutex_'}
    ]_vars

\* A thread leaving its Unlocker committed the other thread's lazy archive
\* and restored its own, changing the lists and the lazy-archive slot, while
\* the other thread was blocked in mutex_->Lock().
C18_Witness ==
  \E t, u \in Threads :
    /\ t # u
    /\ last.t = t
    /\ last.op = "~Unlocker"
    /\ mutex_ = t
    /\ pc[u] = "Unlocker_Lock"
    /\ InCalls("EagerlyArchiveThread", calls)
    /\ InCalls("RestoreThread", calls)

\* C19: subsystem round trip on the regexp stack.  ArchiveStack writes the
\* live state S at the cursor, leaves a fresh live state and advances the
\* cursor by the footprint of the stack; RestoreStack from the same
\* position makes S the live state again, whatever the live state was in
\* between, and advances the cursor by the same amount; neither touches
\* another buffer position or another subsystem's live state.
C19_RoundTrip ==
  LET r == round_trip
      size == FootprintPerThread("RegExpStack")
      Elsewhere(x) ==
        /\ \A s \in Subsystems \ {"RegExpStack"} : x.live[s] = Fresh(s)
        /\ \A i \in DOMAIN x.data \ {r.from} :
             x.data[i] \in {Uninit} \cup
                           {<<ArchiveOrder[i], v>> : v \in 0..MaxVal}
  IN  /\ r.phase = "archived"
           => /\ r.x.data[r.from] = r.S
              /\ r.x.to = r.from + size
              /\ r.after = r.x.to
              /\ Elsewhere(r.x)
      /\ r.phase = "restored"
           => /\ r.x.live["RegExpStack"] = r.S
              /\ r.x.data[r.from] = r.S
              /\ r.x.to - r.from = r.after - r.from
              /\ r.x.to - r.from = size
              /\ Elsewhere(r.x)

\* A non-fresh state S was archived over an older archive at the last
\* buffer position, overwritten by running code, and restored.
C19_Witness ==
  /\ round_trip.phase = "restored"
  /\ round_trip.S = <<"RegExpStack", MaxVal>>
  /\ round_trip.from = ArchiveSpacePerThread
  /\ round_trip.x.data[1] = <<ArchiveOrder[1], 1>>
  /\ round_trip.x.live["RegExpStack"] = round_trip.S

\* The cursor, buffer and live states after the Archive calls of
\* EagerlyArchiveThread, and after the Restore calls of RestoreThread.
RECURSIVE ArchiveAll(_, _)
ArchiveAll(order, x) ==
  IF order = <<>> THEN x ELSE ArchiveAll(Tail(order), Archive(Head(order), x))

RECURSIVE RestoreAll(_, _)
RestoreAll(order, x) ==
  IF order = <<>> THEN x ELSE RestoreAll(Tail(order), Restore(Head(order), x))

\* The ThreadStates that are not list anchors.
RealStates == DOMAIN states \ Anchors

\* C20: fixed registration order.  EagerlyArchiveThread and RestoreThread
\* go through the same subsystems in the same order: handle scopes, top,
\* relocatable, debugger when enabled, stack guard, regexp stack,
\* bootstrapper; the buffer size is the sum of the footprints of exactly
\* these subsystems.  So in every buffer each cell is unwritten or holds
\* what the subsystem of that position archived, every live state is one of
\* its own subsystem, and archiving the live states into any buffer and
\* restoring them ends both cursors one past the end of the buffer and
\* gives every subsystem back its own state.
C20_FixedRegistrationOrder ==
  /\ ArchiveOrder = RestoreOrder
  /\ ArchiveOrder =
       IF ENABLE_DEBUGGER_SUPPORT
       THEN <<"HandleScopeImplementer", "Top", "Relocatable", "Debug",
              "StackGuard", "RegExpStack", "Bootstrapper">>
       ELSE <<"HandleScopeImplementer", "Top", "Relocatable",
              "StackGuard", "RegExpStack", "Bootstrapper">>
  /\ Len(SpaceOrder) = Len(ArchiveOrder)
  /\ SeqToSet(SpaceOrder) = SeqToSet(ArchiveOrder)
  /\ ArchiveSpacePerThread = SumFootprints(ArchiveOrder)
  /\ \A s \in Subsystems : live[s][1] = s
  /\ \A n \in RealStates :
       /\ Len(states[n].data_) = ArchiveSpacePerThread
       /\ \A i \in 1..ArchiveSpacePerThread :
            states[n].data_[i] = Uninit
              \/ states[n].data_[i][1] = ArchiveOrder[i]
       /\ LET Restored(a, r) ==
                /\ a.to = 1 + ArchiveSpacePerThread
                /\ \A i \in 1..ArchiveSpacePerThread :
                     a.data[i] = live[ArchiveOrder[i]]
                /\ r.to = 1 + ArchiveSpacePerThread
                /\ r.live = live
              Archived(a) == Restored(a, RestoreAll(RestoreOrder,
                                                    [a EXCEPT !.to = 1]))
          IN  Archived(ArchiveAll(ArchiveOrder,
                                  [to |-> 1, data |-> states[n].data_,
                                   live |-> live]))

\* A thread has come back through a Locker to state that another thread
\* committed for it: its buffer is fully written, and the live states are
\* the non-fresh ones it was parked with.
C20_Witness ==
  \E t \in Threads :
    /\ last.t = t
    /\ last.op = "Locker"
    /\ InCalls("Restore:Bootstrapper", calls)
    /\ ~InCalls("EagerlyArchiveThread", calls)
    /\ \A s \in Subsystems : live[s] = <<s, MaxVal>>
    /\ \E n \in RealStates :
         \A i \in 1..ArchiveSpacePerThread :
           states[n].data_[i] = <<ArchiveOrder[i], MaxVal>>

\* The ThreadStates the last Iterate visited.
Visited == {n \in DOMAIN states : InCalls("Iterate:" \o ToString(n), calls)}

programState ==
  <<last_id_, mutex_, mutex_owner_, lazily_archived_thread_,
    lazily_archived_thread_state_, states, thread_state_key, thread_id_key,
    live, active_, is_running, top_thread_id_, terminate_requested, pc,
    guards, failed, singleton_, switchers, preempt_requested>>

\* C22: queries.  A call of IsActive or IsLocked changes nothing but the
\* record of the call; IsLocked returns whether the calling thread holds
\* the mutex; IsActive returns whether a guard construction has begun (the
\* first one is that of a Locker), and active_ never goes back to false.
C22_Queries ==
  [][ /\ last'.op = "IsLocked"
           => /\ UNCHANGED programState
              /\ calls' = <<"IsLocked:" \o ToString(mutex_ = last'.t)>>
      /\ last'.op = "IsActive"
           => /\ UNCHANGED programState
              /\ calls' = <<"IsActive:" \o ToString(constructed > 0)>>
      /\ active_ => active_'
      /\ active_' = (constructed' > 0)
      /\ (constructed = 0 /\ constructed' > 0)
           => last'.op \in {"Locker", "Locker:begin"}
    ]_vars

\* IsActive returned true after every guard had been destroyed and the lock
\* released.
C22_Witness ==
  /\ last.op = "IsActive"
  /\ calls = <<"IsActive:TRUE">>
  /\ constructed = MaxGuards
  /\ mutex_ = INVALID
  /\ \A t \in Threads : guards[t] = <<>> /\ pc[t] = "run"

\* C23: context resolution.  In single-instance mode v8_context() is the
\* default context for every thread, whatever the thread's slot holds; in
\* multi-instance mode it is the context in the calling thread's slot, or
\* the default context when the slot is empty, so two threads whose slots
\* hold different contexts each resolve to their own.
C23_ContextResolution ==
  /\ using_one_v8_instance
       => \A t \in Threads : v8_context(t) = default_context
  /\ ~using_one_v8_instance
       => /\ \A t \in Threads :
               /\ context_key[t] # NULL => v8_context(t) = context_key[t]
               /\ context_key[t] = NULL => v8_context(t) = default_context
          /\ \A t, u \in Threads :
               (context_key[t] # NULL /\ context_key[u] # NULL
                  /\ context_key[t] # context_key[u])
                 => /\ v8_context(t) # v8_context(u)
                    /\ v8_context(t) # context_key[u]

\* In multi-instance mode two threads have bound two different contexts,
\* neither of them the default one.
C23_Witness ==
  /\ ~using_one_v8_instance
  /\ \E t, u \in Threads :
       /\ context_key[t] \in alive \ {default_context}
       /\ context_key[u] \in alive \ {default_context}
       /\ context_key[t] # context_key[u]
       /\ binders[t] # <<>>
       /\ binders[u] # <<>>

\* The innermost V8ContextBinder of thread t.
TopBinder(t) == binders[t][Len(binders[t])]

\* In this step thread t destroys its innermost V8ContextBinder.
DestroysBinder(t) ==
  /\ binders[t] # <<>>
  /\ binders'[t] = SubSeq(binders[t], 1, Len(binders[t]) - 1)

\* C24: nestable binding.  When a V8ContextBinder is destroyed, v8_context()
\* of its thread is again what it was before the binder was constructed; in
\* particular, after the inner of two nested binders is destroyed it is the
\* context the outer one bound.
C24_NestableBinding ==
  [][ \A t \in Threads :
        DestroysBinder(t)
          => /\ v8_context(t)' = TopBinder(t).before
             /\ (Len(binders[t]) > 1
                   /\ TopBinder(t).before = binders[t][Len(binders[t]) - 1].v8context_)
                  => v8_context(t)' = binders[t][Len(binders[t]) - 1].v8context_
    ]_vars

\* In this step thread t begins, or returns from, the constructor or the
\* destructor of a V8Context.
EntersCtor(t) == in_context[t] = NoContext /\ in_context'[t].at = "V8Context"
LeavesCtor(t) == in_context[t].at = "V8Context" /\ in_context'[t] = NoContext
EntersDtor(t) == in_context[t] = NoContext /\ in_context'[t].at = "~V8Context"
LeavesDtor(t) == in_context[t].at = "~V8Context" /\ in_context'[t] = NoContext

C26_DestructionRestores ==
  [][ \A t \in Threads :
        (LeavesDtor(t) /\ in_context[t].this # in_context[t].before)
          => /\ v8_context(t)' = in_context[t].before
             /\ using_one_v8_instance' => default_context' # NULL
    ]_vars

\* The live lockers of thread t that locked.
RECURSIVE Locked(_)
Locked(q) ==
  IF q = <<>> THEN 0
  ELSE (IF Head(q).locked_ THEN 1 ELSE 0) + Locked(Tail(q))

RECURSIVE LockedBy(_)
LockedBy(T) ==
  IF T = {} THEN 0
  ELSE LET t == CHOOSE t \in T : TRUE
       IN  Locked(lockers[t]) + LockedBy(T \ {t})

\* C27: guarded resource access.  A V8ResourceLocker constructed in
\* single-instance mode makes no Lock call and one constructed in
\* multi-instance mode makes one; its destructor makes one Unlock call
\* exactly when its constructor locked, whatever the mode is by then.  So
\* the Lock calls exceed the Unlock calls by the number of live lockers
\* that locked, the lock is held exactly when there is one, and the calls
\* are equal in number when no locker is alive.
C27_BalancedLocking ==
  [][ /\ \A t \in Threads :
           /\ Len(lockers'[t]) > Len(lockers[t])
                => /\ lockers'[t][Len(lockers'[t])].locked_
                        = ~using_one_v8_instance
                   /\ lock_calls' = lock_calls
                                      + (IF using_one_v8_instance THEN 0 ELSE 1)
                   /\ unlock_calls' = unlock_calls
           /\ Len(lockers'[t]) < Len(lockers[t])
                => /\ lock_calls' = lock_calls
                   /\ unlock_calls' = unlock_calls
                        + (IF lockers[t][Len(lockers[t])].locked_ THEN 1 ELSE 0)
      /\ lock_calls' - unlock_calls' = LockedBy(Threads)'
      /\ (resource_lock' # INVALID) = (LockedBy(Threads)' = 1)
      /\ LockedBy(Threads)' <= 1
    ]_vars

\* A locker constructed in single-instance mode was destroyed in
\* multi-instance mode, while another thread's locker held the lock.
C27_Witness ==
  /\ last.op = "~V8ResourceLocker"
  /\ calls = <<>>
  /\ ~using_one_v8_instance
  /\ resource_lock \in Threads \ {last.t}
  /\ lock_calls = 1
  /\ unlock_calls = 0

\* C28: contract violations are fatal, not silent.  A call of ArchiveThread
\* by a thread that is already archived, a call of ArchiveThread while
\* another thread is the lazy candidate, a call of RestoreThread by a thread
\* that does not hold the lock, and the construction of an Unlocker by a
\* thread that does not hold the lock each fail an assertion whose
\* condition is that of the state the call was made in.
C28_ViolationsAreDetected ==
  [][ \A t \in Threads :
        /\ (last'.t = t /\ last'.op = "ArchiveThread!")
             => /\ IsArchived(t, Data)
                     => "ArchiveThread: not archived" \in failed'
                /\ (IsValid(lazily_archived_thread_)
                      /\ ~IsSelf(lazily_archived_thread_, t))
                     => "ArchiveThread: no lazily archived thread" \in failed'
        /\ (last'.t = t /\ last'.op = "Unlocker!")
             => "Unlocker: locked by current thread" \in failed'
        /\ (last'.t = t /\ last'.op = "RestoreThread!"
              /\ ~IsLockedByCurrentThread(t, Data))
             => failed' # {}
    ]_vars

\* The ThreadState ArchiveThread would take: the head of the free list, or
\* a newly allocated one.
StateToTake == GetFree(states).states[GetFree(states).state]

ArchiveThreadFailures ==
  {"ArchiveThread: no lazily archived thread", "ArchiveThread: not archived",
   "ArchiveThread: state id invalid", "ArchiveThread: state id valid"}

\* C29: under properly nested guard use every call of ArchiveThread, from
\* the construction of an Unlocker or from the destruction of a Locker that
\* restored its thread, is made by the thread that holds the lock, with no
\* lazy candidate pending, by a thread that is not archived and has a valid
\* id, and takes a ThreadState whose id is invalid; none of ArchiveThread's
\* assertions ever fails.
C29_ArchivePreconditionsHold ==
  [][ /\ \A t \in Threads :
           Calls(t, "ArchiveThread") =>
             /\ last'.op \in {"Unlocker", "~Locker"}
             /\ IsLockedByCurrentThread(t, Data)
             /\ ~IsValid(lazily_archived_thread_)
             /\ ~IsArchived(t, Data)
             /\ StateToTake.id_ = kInvalidId
             /\ HasId(t, Data) /\ CurrentId(t, Data) # kInvalidId
      /\ failed' \cap ArchiveThreadFailures = {}
    ]_vars

\* A Locker nested in an Unlocker scope is destroyed and archives its
\* thread again, after a second thread has used the lock as well.
C29_Witness ==
  /\ last.op = "~Locker"
  /\ InCalls("ArchiveThread", calls)
  /\ \E u \in Threads \ {last.t} : HasId(u, Data)
  /\ Len(guards[last.t]) >= 2
  /\ failed = {}

\* t's Locker constructor returns after having acquired the lock.
AcquiredCtor(t) == pc[t] = "Locker_Locked" /\ pc'[t] = "run"

\* The guard under the one t's constructor is building is an Unlocker.
InsideOwnUnlocker(t) ==
  /\ Len(guards[t]) >= 2
  /\ guards[t][Len(guards[t]) - 1].kind = "Unlocker"

\* C30: a Locker that had to acquire the lock is non-top-level exactly
\* when RestoreThread returned true, which is exactly when it is constructed
\* inside an Unlocker scope of the same thread; RestoreThread returns false
\* only for a thread that has no archived state.  Destroying a non-top-level
\* Locker calls ArchiveThread, leaves the thread the lazy candidate under
\* the enclosing Unlocker and gives up the lock, and every Unlocker's
\* destructor finds its thread archived and restores it.
C30_LockerInsideUnlocker ==
  [][\A t \in Threads :
       /\ AcquiredCtor(t) =>
            /\ NewTop(t).has_lock_
            /\ ~NewTop(t).top_level_ <=> RestoreThread(t, Data).result
            /\ ~NewTop(t).top_level_ <=> InsideOwnUnlocker(t)
       /\ Calls(t, "RestoreThread") =>
            (RestoreThread(t, Data).result <=> IsArchived(t, Data))
       /\ (DestroysLocker(t) /\ ~Top(t).top_level_) =>
            /\ Calls(t, "ArchiveThread")
            /\ Calls(t, "Unlock")
            /\ mutex_owner_' = INVALID
            /\ pc'[t] = "Locker_Unlock"
            /\ IsSelf(lazily_archived_thread_', t)
            /\ thread_state_key'[t] # NULL
            /\ NewTop(t).kind = "Unlocker"
       /\ (pc[t] = "Unlocker_Locked" /\ pc'[t] = "run") =>
            /\ IsArchived(t, Data)
            /\ Calls(t, "RestoreThread")
            /\ ~InCalls("StackGuard::InitThread", calls')
            /\ thread_state_key'[t] = NULL]_vars

\* A Locker constructed inside its thread's Unlocker, which acquired the
\* lock and is non-top-level, has just been destroyed: the thread is the
\* lazy candidate again and the enclosing Unlocker is its innermost guard.
C30_Witness ==
  \E t \in Threads :
    /\ last.t = t /\ last.op = "~Locker"
    /\ pc[t] = "Locker_Unlock"
    /\ IsSelf(lazily_archived_thread_, t)
    /\ guards[t] # <<>> /\ Top(t).kind = "Unlocker"
    /\ Len(guards[t]) >= 2

\* Switchers whose keep_going_ has been cleared and whose thread is joined.
ClearedSwitchers ==
  {w \in DOMAIN switchers : ~switchers[w].keep_going_ /\ ~switchers[w].deleted}

\* C31: StopPreemption terminates.  The switcher's thread never waits for
\* or changes the V8 lock, the thread in StopPreemption holds the lock while
\* it joins, the switcher's thread sleeps at most once more after
\* keep_going_ was cleared, and every StopPreemption that has begun to join
\* returns.
C31_StopPreemptionTerminates ==
  /\ [][last'.op = "ContextSwitcher::Run" =>
          /\ UNCHANGED <<mutex_, mutex_owner_, pc>>
          /\ \E w \in DOMAIN switchers :
               /\ switchers[w].at # "exited"
               /\ switchers'[w] # switchers[w]]_vars
  /\ [](\A t \in Threads :
          pc[t] = "StopPreemption_Join" =>
            /\ mutex_ = t /\ mutex_owner_ = t
            /\ singleton_ \in ClearedSwitchers)
  /\ [](\A w \in ClearedSwitchers : switchers[w].sleeps <= 1)
  /\ \A t \in Threads : (pc[t] = "StopPreemption_Join") ~> (pc[t] = "run")

\* StopPreemption is about to return after the switcher slept once more:
\* it was asleep, or its test still saw keep_going_ set, when the flag was
\* cleared.
C31_Witness ==
  \E t \in Threads :
    /\ pc[t] = "StopPreemption_Join"
    /\ switchers[singleton_].at = "exited"
    /\ switchers[singleton_].sleeps = 1

ArchivedAt(s, size) ==
  1 + SpaceOf(size, SelectSeq(ArchiveOrder,
                LAMBDA u : \E i, j \in 1..Len(ArchiveOrder) :
                             /\ ArchiveOrder[i] = u /\ ArchiveOrder[j] = s
                             /\ i < j))

\* C32: the subsystems Iterate scans are the first subsystems of the
\* archive order, in that order; Iterate, MarkCompactPrologue and
\* MarkCompactEpilogue hand every subsystem the cursor at which
\* EagerlyArchiveThread called that subsystem's Archive, so that a scan
\* reads, byte for byte, what the same subsystem wrote; Iterate scans all
\* of its subsystems and the MarkCompact functions scan Top alone.
C32_ScansReadWhatWasArchived ==
  /\ IterateOrder = SubSeq(ArchiveOrder, 1, Len(IterateOrder))
  /\ \A i \in 1..Len(scan.reads) :
       /\ scan.reads[i].from = ArchivedAt(scan.reads[i].by, scan.size)
       /\ \A k \in 1..scan.size[scan.reads[i].by] :
            scan.reads[i].bytes[k] = <<scan.reads[i].by, k - 1>>
  /\ scan.phase = "Iterate" =>
       /\ Len(scan.reads) = Len(IterateOrder)
       /\ \A i \in 1..Len(IterateOrder) : scan.reads[i].by = IterateOrder[i]
  /\ scan.phase \in {"MarkCompactPrologue", "MarkCompactEpilogue"} =>
       /\ Len(scan.reads) = 1
       /\ scan.reads[1].by = "Top"

\* The mark-compact prologue has scanned a buffer in which the handle
\* scopes take more room than Top does.
C32_Witness ==
  /\ scan.phase = "MarkCompactPrologue"
  /\ scan.size["HandleScopeImplementer"] = MaxFootprint
  /\ scan.size["Top"] = 1
  /\ scan.reads[1].from = 1 + MaxFootprint
  /\ scan.reads[1].bytes = <<(<<"Top", 0>>)>>

\* Every thread has left all of its Locker and Unlocker scopes.
Quiescent == \A t \in Threads : guards[t] = <<>> /\ pc[t] = "run"

\* C33: quiescence.  When every thread has left all of its guard scopes
\* the mutex is free and the owner record invalid, no thread is the lazy
\* candidate, the in-use list is empty, no thread has its thread-state key
\* set, and every ThreadState ever allocated is in the free list.
C33_Quiescence ==
  Quiescent =>
    /\ mutex_ = INVALID
    /\ ~IsValid(mutex_owner_)
    /\ ~IsValid(lazily_archived_thread_)
    /\ lazily_archived_thread_state_ = NULL
    /\ ListOf(states, in_use_anchor_) = <<>>
    /\ \A t \in Threads : ~IsArchived(t, Data)
    /\ SeqToSet(ListOf(states, free_anchor_)) = DOMAIN states \ Anchors

\* All scopes are left after two threads were archived at the same time:
\* two ThreadStates were allocated and both are back in the free list.
C33_Witness ==
  /\ Quiescent
  /\ constructed = MaxGuards
  /\ \A t \in Threads : HasId(t, Data)
  /\ Cardinality(DOMAIN states \ Anchors) = 2
  /\ Len(ListOf(states, free_anchor_)) = 2

\* C34: the free list holds only clean states.  Every ThreadState in the
\* free list has an invalid id and terminate_on_restore_ false, and so has
\* the ThreadState reserved for the lazily archived thread until it is
\* committed: TerminateExecution reaches the in-use list only, so the lazy
\* path of RestoreThread, which does not touch the flag, returns the state
\* clean.
C34_FreeListIsClean ==
  /\ \A n \in SeqToSet(ListOf(states, free_anchor_)) :
       /\ states[n].id_ = kInvalidId
       /\ ~states[n].terminate_on_restore_
  /\ lazily_archived_thread_state_ # NULL =>
       ~states[lazily_archived_thread_state_].terminate_on_restore_
  /\ \A n \in Anchors : ~states[n].terminate_on_restore_

\* A thread has left its Unlocker by the lazy path of RestoreThread and
\* returned its ThreadState to the free list, while the committed state of
\* another thread is flagged for termination.
C34_Witness ==
  \E t \in Threads :
    /\ last.t = t /\ last.op = "~Unlocker"
    /\ InCalls("RestoreThread", calls)
    /\ ~InCalls("Restore:Top", calls)
    /\ ListOf(states, free_anchor_) # <<>>
    /\ \E n \in SeqToSet(ListOf(states, in_use_anchor_)) :
         states[n].terminate_on_restore_

\* The ThreadStates allocated so far, and the threads archived now, lazily
\* or committed.
Allocated == DOMAIN states \ Anchors
ArchivedThreads == {t \in Threads : IsArchived(t, Data)}

\* C35: bounded allocation.  No ThreadState is ever deallocated.  A step
\* allocates at most one, and only when every ThreadState allocated before
\* serves an archived thread: after the step as many are allocated as
\* threads are archived, which makes the number allocated at most the
\* largest number of threads archived at one time.  It never exceeds the
\* number of threads.
C35_BoundedAllocation ==
  /\ [][/\ Allocated \subseteq Allocated'
        /\ Allocated' # Allocated =>
             /\ Cardinality(Allocated') = Cardinality(Allocated) + 1
             /\ Cardinality(Allocated) = Cardinality(ArchivedThreads)
             /\ Cardinality(Allocated') = Cardinality(ArchivedThreads')
             /\ InCalls("ArchiveThread", calls')]_vars
  /\ [](/\ Cardinality(ArchivedThreads) <= Cardinality(Allocated)
        /\ Cardinality(Allocated) <= NumThreads)

\* Every thread is archived at the same time, each in a ThreadState of
\* its own.
C35_Witness ==
  /\ ArchivedThreads = Threads
  /\ Cardinality(Allocated) = NumThreads
  /\ constructed = MaxGuards
  /\ last.op = "Unlocker"

\* The switcher's thread w has a step it can take.
SwitcherCanStep(w) ==
  ENABLED (RunTest(w) \/ RunSleep(w) \/ RunPreemptEnter(w)
             \/ RunPreemptLeave(w))

\* The holder h of the V8 lock is not waiting for the lock, and what it
\* waits for, if anything, is on its way: a holder that is outside the
\* guard code has a Locker to destroy, a holder that needs ExecutionAccess
\* finds it free or held by a switcher thread that can release it, and a
\* holder in Join() joins a thread that has exited or can step.
HolderCanProceed(h) ==
  /\ ~Blocked(h)
  /\ pc[h] = "run" => (guards[h] # <<>> /\ Top(h).kind = "Locker")
  /\ pc[h] \in {"Locker_Locked", "Unlocker_Locked"} =>
       \A w \in DOMAIN switchers :
         switchers[w].at = "InPreempt" => ENABLED RunPreemptLeave(w)
  /\ pc[h] \in {"Locker_Unlock", "Unlocker_Unlock"} => ENABLED MutexUnlock(h)
  /\ pc[h] = "StopPreemption_Join" =>
       (switchers[singleton_].at = "exited" \/ SwitcherCanStep(singleton_))

\* Some thread, or the switcher's thread, has a step of the code to take,
\* or a thread that is outside the guard code has a guard to destroy.
SomeoneCanStep ==
  \/ \E t \in Threads :
       \/ Blocked(t) /\ mutex_ = INVALID
       \/ pc[t] \in {"Locker_Locked", "Unlocker_Locked"} /\ ExecutionAccessFree
       \/ pc[t] \in {"Locker_Unlock", "Unlocker_Unlock"} /\ ENABLED MutexUnlock(t)
       \/ pc[t] = "StopPreemption_Join" /\ switchers[singleton_].at = "exited"
       \/ pc[t] = "run" /\ guards[t] # <<>>
  \/ \E w \in DOMAIN switchers : SwitcherCanStep(w)

\* C37: deadlock freedom.  With guards nested in any proper way and a
\* switcher running, a state in which some thread is inside an operation
\* has a step; whenever a thread waits for the V8 lock, the lock is free
\* or held by a thread that can proceed; the switcher's thread never waits
\* for the V8 lock and gives ExecutionAccess back without waiting; and
\* every thread that holds the V8 lock inside guard code or StopPreemption
\* comes out of it.
C37_DeadlockFreedom ==
  /\ []((\E t \in Threads : pc[t] # "run") => SomeoneCanStep)
  /\ [](\A t \in Threads :
          (Blocked(t) /\ mutex_ # INVALID) =>
            (mutex_ \in Threads /\ HolderCanProceed(mutex_)))
  /\ [](\A w \in DOMAIN switchers :
          switchers[w].at \in {"Run", "Sleep", "InPreempt"} =>
            SwitcherCanStep(w))
  /\ \A t \in Threads :
       (pc[t] \in {"Locker_Locked", "Unlocker_Locked", "Locker_Unlock",
                   "Unlocker_Unlock", "StopPreemption_Join"})
         ~> (pc[t] = "run")

\* A thread waits for the V8 lock to leave its Unlocker while the holder,
\* inside a Locker of its own, is in StopPreemption and the switcher's
\* thread holds ExecutionAccess.
C37_Witness ==
  \E t, h \in Threads :
    /\ pc[t] = "Unlocker_Lock"
    /\ mutex_ = h
    /\ pc[h] = "StopPreemption_Join"
    /\ switchers[singleton_].at = "InPreempt"

\* C38: archiving clears the live regexp stack.  ArchiveStack leaves the
\* live regexp-stack state equal to a freshly constructed ThreadLocal, so
\* a thread that runs next starts from the fresh state and nothing it
\* frees is the archived thread's memory; RestoreStack makes the archived
\* state the live one and leaves the buffer as it was.
C38_ArchiveClearsLive ==
  /\ [][/\ (round_trip.phase = "live" /\ round_trip'.phase = "archived")
            => /\ round_trip'.x.live["RegExpStack"] = Fresh("RegExpStack")
               /\ round_trip'.x.data[round_trip.from] =
                    round_trip.x.live["RegExpStack"]
               /\ RegExpStack_Freed(round_trip'.x.live) = {}
        /\ (round_trip.phase = "archived" /\ round_trip'.phase = "restored")
            => /\ round_trip'.x.live["RegExpStack"] =
                    round_trip.x.data[round_trip.from]
               /\ round_trip'.x.live["RegExpStack"] = round_trip.S
               /\ round_trip'.x.data = round_trip.x.data]_vars
  /\ [](round_trip.S \notin round_trip.freed)

\* An archived stack with memory was restored over the memory-less live
\* state of a thread that ran, grew its own stack and freed it.
C38_Witness ==
  /\ round_trip.phase = "restored"
  /\ round_trip.S[2] > 0
  /\ round_trip.freed # {}
  /\ round_trip.x.live["RegExpStack"] = round_trip.S

\* The segments of the chain from segment n on, newest first.
RECURSIVE Chain(_, _)
Chain(z, n) ==
  IF n = NULL THEN <<>> ELSE <<n>> \o Chain(z, z.segments[n].next_)

RECURSIVE SumSizes(_, _)
SumSizes(z, ids) ==
  IF ids = {} THEN 0
  ELSE LET id == CHOOSE i \in ids : TRUE
       IN  z.segments[id].size_ + SumSizes(z, ids \ {id})

\* What a call of DeleteAll that takes the zone from z to z2 has done.
DeleteAllEffect(z, z2) ==
  LET before == Chain(z, z.head_)
      after == Chain(z2, z2.head_)
      small == {i \in 1..Len(before) :
                  z.segments[before[i]].size_ <= kMaximumKeptSegmentSize}
      kept == IF small = {} THEN {}
              ELSE {before[CHOOSE i \in small : \A j \in small : i <= j]}
      deleted == SeqToSet(before) \ kept
  IN  /\ Len(after) <= 1
      /\ SeqToSet(after) = kept
      /\ \A k \in kept :
           /\ z2.segments[k].size_ <= kMaximumKeptSegmentSize
           /\ z2.segments[k].size_ = z.segments[k].size_
           /\ z2.segments[k].next_ = NULL
           /\ z2.segments[k].deletes = 0
           /\ SegmentAddress(k) < z2.position_
           /\ z2.position_ <= z2.limit_
           /\ z2.limit_ <= SegmentAddress(k) + z2.segments[k].size_
      /\ kept = {} => (z2.position_ = 0 /\ z2.limit_ = 0)
      /\ \A d \in deleted :
           z.segments[d].deletes = 0 /\ z2.segments[d].deletes = 1
      /\ \A i \in DOMAIN z.segments \ SeqToSet(before) :
           z2.segments[i] = z.segments[i]
      /\ DOMAIN z2.segments = DOMAIN z.segments
      /\ z2.segment_bytes_allocated_ =
           z.segment_bytes_allocated_ - SumSizes(z, deleted)

\* C39: DeleteAll leaves at most one segment.  After any sequence of
\* allocations, DeleteAll leaves the chain empty or holding exactly the
\* newest segment of the chain whose size is at most
\* kMaximumKeptSegmentSize, with its next link NULL; position_ and limit_
\* lie within that segment, or are both 0 when none is kept; every other
\* segment of the chain has been deleted exactly once, no segment is ever
\* deleted twice, and the segment-bytes counter dropped by exactly the sum
\* of the deleted sizes.
C39_DeleteAllKeepsOne ==
  /\ [][zone'.op = "Zone::DeleteAll" => DeleteAllEffect(zone, zone')]_vars
  /\ [](\A i \in DOMAIN zone.segments : zone.segments[i].deletes <= 1)

\* DeleteAll has kept a segment that was neither the newest nor the oldest
\* of a chain of three, and freed the other two, after a failed
\* allocation had been counted.
C39_Witness ==
  /\ zone.op = "Zone::DeleteAll"
  /\ Len(zone.segments) >= 3
  /\ zone.head_ = 2
  /\ zone.segments[1].deletes = 1
  /\ zone.segments[3].deletes = 1
  /\ zone.failures > 0
  /\ zone.segment_bytes_allocated_ > zone.segments[2].size_

\* The innermost live VMState that is not disabled, NULL when there is
\* none.
RECURSIVE InnermostEnabled(_)
InnermostEnabled(objects) ==
  IF objects = <<>> THEN NULL
  ELSE LET o == objects[Len(objects)]
       IN  IF o.disabled_
           THEN InnermostEnabled(SubSeq(objects, 1, Len(objects) - 1))
           ELSE o.address

\* C40: VMState is a balanced stack.  With VMState objects properly
\* nested, destroying one that was constructed while logging was enabled
\* sets the logger's current state back to what it was before that
\* construction; one constructed while logging was disabled changes the
\* current state neither when constructed nor when destroyed, whatever the
\* logging switch does in between; so the current state is always the
\* innermost live VMState constructed with logging enabled, or NULL.
C40_BalancedStack ==
  /\ [][/\ Len(logger'.objects) = Len(logger.objects) - 1
            => LET o == logger.objects[Len(logger.objects)]
               IN  logger'.current_state_ =
                     IF o.disabled_ THEN logger.current_state_
                     ELSE o.entered
        /\ Len(logger'.objects) = Len(logger.objects) + 1
            => LET o == logger'.objects[Len(logger'.objects)]
               IN  /\ o.disabled_ = ~logger.is_logging
                   /\ o.disabled_ =>
                        logger'.current_state_ = logger.current_state_
                   /\ ~o.disabled_ =>
                        logger'.current_state_ = logger.made + 1
        /\ Len(logger'.objects) = Len(logger.objects)
            => logger'.current_state_ = logger.current_state_]_vars
  /\ [](logger.current_state_ = InnermostEnabled(logger.objects))

\* After an earlier VMState was destroyed, a VMState constructed with
\* logging disabled is live inside one constructed with logging enabled,
\* and logging has been enabled again.
C40_Witness ==
  /\ logger.made = 3
  /\ Len(logger.objects) = 2
  /\ ~logger.objects[1].disabled_
  /\ logger.objects[1].entered = NULL
  /\ logger.objects[2].disabled_
  /\ logger.is_logging
  /\ logger.current_state_ = logger.objects[1].address

====
